---- MODULE Spec2Model ----
(***************************************************************************)
(* A state-machine model of the airwave simulation core:                   *)
(*   engine/src/engine.rs                    Engine::tick and its passes   *)
(*   engine/src/entities/aircraft/events.rs  handle_aircraft_event         *)
(*                                                                         *)
(* Geometry is one-dimensional: every aircraft, airport, runway and fix    *)
(* lies on the east-west axis, positions are integer feet, headings are    *)
(* 90 (east) or 270 (west).  On that axis the code's f32 formulas          *)
(* (distance_squared, angle_between_points, delta_angle, sin, cos) take    *)
(* exact integer values, so they are computed as the code computes them.   *)
(* Horizontal displacement per tick (speed * dt, dt = 1/15 s) is below the *)
(* position grid and is not modelled; altitude and speed follow targets.   *)
(***************************************************************************)
EXTENDS Integers, Sequences, FiniteSets, TLC

VARIABLES
  aircraft,      \* game.aircraft: sequence of aircraft records, insertion order
  events,        \* Engine.events: the inbound buffer (last tick's outbound)
  world,         \* world.airports with their status flags (fixed after Init)
  available,     \* gate.available, per airport id and gate id
  tick_counter,  \* Engine.tick_counter
  config,        \* EngineConfig: "Minimal" | "Full"
  paused,        \* the Pause latch of the UI command loop
  ui_events,     \* UI events echoed to the front-end since Init
  panicked,      \* a tick aborted by a panic (an unwrap of None)
  returned,      \* the list the last tick() call returned
  log,           \* per-step record of the last tick (observation only)
  emitted        \* events each pass of the last tick produced (observation only)

vars == <<aircraft, events, world, available, tick_counter, config, paused,
          ui_events, panicked, returned, log, emitted>>

-----------------------------------------------------------------------------
(* Bounds of the model                                                     *)

MaxTicks == 3
MaxInbound == 1
MaxPauses == 2
MaxCommandTicks == 1

-----------------------------------------------------------------------------
(* Sequence helpers                                                        *)

Range(s) == {s[i] : i \in 1..Len(s)}

RECURSIVE SeqFilterIdx(_, _, _)
\* indices i of s (ascending) with Keep[i]
SeqFilterIdx(n, Keep, i) ==
  IF i > n THEN <<>>
  ELSE IF Keep[i] THEN <<i>> \o SeqFilterIdx(n, Keep, i + 1)
  ELSE SeqFilterIdx(n, Keep, i + 1)

\* a let binding: the value of F at e
Let(e, F(_)) == F(e)

RECURSIVE Tuple(_, _)
\* the sequence f[1], ..., f[n], each element evaluated once
Tuple(f, n) == IF n = 0 THEN <<>> ELSE Append(Tuple(f, n - 1), f[n])

Reverse(s) == Tuple([i \in 1..Len(s) |-> s[Len(s) + 1 - i]], Len(s))

Abs(n) == IF n < 0 THEN -n ELSE n

Min(a, b) == IF a < b THEN a ELSE b

Max(a, b) == IF a > b THEN a ELSE b

-----------------------------------------------------------------------------
(* Nodes, events                                                           *)

\* pathfinder::Node: name, kind, behavior and a payload (a position here)
\* (x along the axis, y lateral: only pattern fixes lie off the axis)
NodeXY(name, kind, behavior, x, y) ==
  [name |-> name, kind |-> kind, behavior |-> behavior, x |-> x, y |-> y]

Node(name, kind, behavior, x) == NodeXY(name, kind, behavior, x, 0)

NoNode == Node("", "None", "GoTo", 0)

\* AircraftEvent {id, kind}; the payload of EventKind is spread over typed
\* fields: n (f32 value), s/s2 (names, segments), b (flag), ns (nodes)
Event(id, kind, n, s, s2, b, ns) ==
  [id |-> id, kind |-> kind, n |-> n, s |-> s, s2 |-> s2, b |-> b, ns |-> ns]

Ev(id, kind) == Event(id, kind, 0, "", "", FALSE, <<>>)
EvN(id, kind, n) == Event(id, kind, n, "", "", FALSE, <<>>)
EvS(id, kind, s) == Event(id, kind, 0, s, "", FALSE, <<>>)
EvB(id, kind, b) == Event(id, kind, 0, "", "", b, <<>>)
EvNodes(id, kind, ns) == Event(id, kind, 0, "", "", FALSE, ns)
EvSegment(id, prev, next) == Event(id, "Segment", 0, prev, next, FALSE, <<>>)

\* Event::UiEvent(UIEvent::Pause) in the engine's event list
UiPause == Ev("", "UiPause")

IsAircraftEvent(e) == e.kind # "UiPause"

-----------------------------------------------------------------------------
(* World                                                                   *)

NoRunway == [id |-> "", heading |-> 0, x |-> 0]

NoAirport ==
  [id |-> "", cx |-> 0, radius |-> 0, runways |-> <<>>, gates |-> <<>>,
   taxi_nodes |-> {}, edges |-> <<>>, automate_air |-> FALSE, automate_ground |-> FALSE,
   divert_arrivals |-> FALSE, freq_base |-> 0]

\* World::airport(id): the airport with that id, if any
AirportIdx(w, id) == {i \in 1..Len(w.airports) : w.airports[i].id = id}

HasAirport(w, id) == AirportIdx(w, id) # {}

WorldAirport(w, id) ==
  IF HasAirport(w, id)
  THEN w.airports[CHOOSE i \in AirportIdx(w, id) :
                    \A j \in AirportIdx(w, id) : i <= j]
  ELSE NoAirport

\* World::airport_status(id): the status flags, default (all false) if unknown
airport_status(w, id) ==
  LET ap == WorldAirport(w, id)
  IN [automate_air |-> ap.automate_air, automate_ground |-> ap.automate_ground,
      divert_arrivals |-> ap.divert_arrivals]

\* runways.iter().find(|r| r.id == id)
RunwayIdx(ap, id) == {i \in 1..Len(ap.runways) : ap.runways[i].id = id}

FindRunway(ap, id) ==
  IF RunwayIdx(ap, id) = {} THEN NoRunway
  ELSE ap.runways[CHOOSE i \in RunwayIdx(ap, id) :
                    \A j \in RunwayIdx(ap, id) : i <= j]

\* Frequencies::try_from_string: a named frequency of the airport, -1 for none
NamedFrequencyOf(ap, name) ==
  CASE name = "ground"    -> ap.freq_base + 1
    [] name = "tower"     -> ap.freq_base + 2
    [] name = "approach"  -> ap.freq_base + 3
    [] name = "departure" -> ap.freq_base + 4
    [] name = "center"    -> ap.freq_base + 5
    [] OTHER              -> -1

-----------------------------------------------------------------------------
(* Aircraft                                                                *)

\* AircraftState is flattened: kind names the variant; cur is Parked.at or
\* Taxiing.current; waypoints and sub belong to Taxiing (TaxiingState) or
\* Landing (LandingState); runway belongs to Landing.
IsParked(a) == a.kind = "Parked"
IsTaxiing(a) == a.kind = "Taxiing"
IsFlying(a) == a.kind = "Flying"
IsLanding(a) == a.kind = "Landing"

SetFlying(a) ==
  [a EXCEPT !.kind = "Flying", !.cur = NoNode, !.waypoints = <<>>,
            !.sub = "None", !.runway = NoRunway]

SetLanding(a, rwy) ==
  [a EXCEPT !.kind = "Landing", !.cur = NoNode, !.waypoints = <<>>,
            !.sub = "Approach", !.runway = rwy]

SetTaxiing(a, current, wps, sub) ==
  [a EXCEPT !.kind = "Taxiing", !.cur = current, !.waypoints = wps,
            !.sub = sub, !.runway = NoRunway]

SetParked(a, at) ==
  [a EXCEPT !.kind = "Parked", !.cur = at, !.waypoints = <<>>,
            !.sub = "None", !.runway = NoRunway]

\* Aircraft::find_airport: the airport whose airspace the aircraft is in
find_airport(a, w) ==
  IF a.airspace = "none" THEN NoAirport ELSE WorldAirport(w, a.airspace)

\* minima with a separation of 6 NM
separation_minima_six_miles(a) ==
  [min_speed |-> 170, max_speed |-> 250, separation_distance |-> 6 * 6076,
   max_deviation_angle |-> 20]

\* Aircraft::separation_minima
separation_minima(a) ==
  [min_speed |-> 170, max_speed |-> 250, separation_distance |-> 5 * 6076,
   max_deviation_angle |-> 20]

\* TCAS::is_ra, TCAS::is_idle
is_ra(t) == t \in {"Climb", "Descend"}
is_idle(t) == t = "Idle"

\* FlightSegment::in_air
in_air(seg) ==
  seg \in {"Departure", "Climb", "Cruise", "Arrival", "Approach", "Landing"}

\* FlightPlan helpers
at_end(a) == a.fp_index >= Len(a.fp_wps)
stop_following(a) == [a EXCEPT !.follow = FALSE]
start_following(a) == [a EXCEPT !.follow = TRUE]
amend_end(a, wps) ==
  [a EXCEPT !.fp_wps = SubSeq(a.fp_wps, 1, Min(a.fp_index, Len(a.fp_wps))) \o wps]
clear_waypoints(a) == [a EXCEPT !.fp_wps = <<>>, !.fp_index = 0]
set_index(a, i) == [a EXCEPT !.fp_index = i]
active_waypoints(a) ==
  SubSeq(a.fp_wps, Min(a.fp_index, Len(a.fp_wps)) + 1, Len(a.fp_wps))

\* Aircraft::sync_targets_to_vals
sync_targets_to_vals(a) ==
  [a EXCEPT !.thead = a.heading, !.tspeed = a.speed, !.talt = a.altitude]

\* Aircraft::flip_flight_plan
flip_flight_plan(a) == [a EXCEPT !.dep = a.arr, !.arr = a.dep]


-----------------------------------------------------------------------------
(* Geometry on the east-west axis                                          *)

\* geometry::angle_between_points: the bearing from x1 to x2
angle_between_points(x1, x2) == IF x2 >= x1 THEN 90 ELSE 270

\* geometry::delta_angle: the signed difference of two bearings, in (-180, 180]
delta_angle(from, to) ==
  LET d == (((to - from) % 360) + 360) % 360
  IN IF d > 180 THEN d - 360 ELSE d

\* Vec2::distance_squared of two points (dx, dy apart).  Beyond 32000 ft per
\* axis the result saturates (every threshold of the code is far below it),
\* which keeps the squares within the integer range of the checker.
distance_squared_xy(dx, dy) ==
  IF Abs(dx) > 32000 \/ Abs(dy) > 32000 THEN 2048000000
  ELSE dx * dx + dy * dy

\* Vec2::distance_squared of two points of the axis
distance_squared(x1, x2) == distance_squared_xy(x1 - x2, 0)

\* geometry::move_point along a bearing
move_point(x, bearing, length) ==
  IF bearing = 90 THEN x + length ELSE IF bearing = 270 THEN x - length ELSE x

\* Vec2::move_towards
move_towards(x, to, length) ==
  IF Abs(to - x) <= length THEN to
  ELSE IF to > x THEN x + length ELSE x - length

\* sign3
sign3(n) == IF n > 0 THEN 1 ELSE IF n < 0 THEN -1 ELSE 0

-----------------------------------------------------------------------------
(* Event handlers: engine/src/entities/aircraft/events.rs                  *)

\* a handler's result: the aircraft after it and the events it pushed
Res(a, out) == [a |-> a, out |-> out]

\* a Land handler that does not look at the state of the aircraft
handle_land_event_any(a, runway_id, w) ==
  LET rwy == FindRunway(find_airport(a, w), runway_id)
  IN IF rwy # NoRunway THEN Res(SetLanding(a, rwy), <<>>) ELSE Res(a, <<>>)

\* a Land that keeps the landing state of an aircraft already landing
handle_land_event_keeps_sub(a, runway_id, w) ==
  IF IsFlying(a) \/ IsLanding(a)
  THEN LET rwy == FindRunway(find_airport(a, w), runway_id)
       IN IF rwy # NoRunway
          THEN Res([SetLanding(a, rwy) EXCEPT
                      !.sub = IF IsLanding(a) THEN a.sub ELSE "Approach"], <<>>)
          ELSE Res(a, <<>>)
  ELSE Res(a, <<>>)

\* EventKind::Land
handle_land_event(a, runway_id, w) ==
  IF IsFlying(a) \/ IsLanding(a)
  THEN LET rwy == FindRunway(find_airport(a, w), runway_id)
       IN IF rwy # NoRunway THEN Res(SetLanding(a, rwy), <<>>) ELSE Res(a, <<>>)
  ELSE Res(a, <<>>)

\* a touchdown that leaves the aircraft parked on the runway
handle_touchdown_event_parks(a) ==
  SetParked([a EXCEPT !.talt = 0, !.altitude = 0, !.tspeed = 0],
            Node(a.runway.id, "Runway", "GoTo", a.x))

\* handle_touchdown_event
handle_touchdown_event(a) ==
  LET b == [a EXCEPT !.talt = 0, !.altitude = 0, !.thead = a.runway.heading,
                     !.heading = a.runway.heading, !.tspeed = 0]
  IN SetTaxiing(b, Node(a.runway.id, "Runway", "GoTo", a.x), <<>>, "Override")

\* a Takeoff that does not ask where the aircraft stands
handle_takeoff_event_anywhere(a, runway_id, w) ==
  LET rwy == FindRunway(find_airport(a, w), runway_id)
  IN IF IsTaxiing(a) /\ rwy # NoRunway
     THEN Res(SetFlying([a EXCEPT !.tspeed = separation_minima(a).max_speed,
                                  !.talt = a.fp_alt,
                                  !.heading = rwy.heading,
                                  !.thead = rwy.heading]),
              <<EvB(a.id, "ResumeOwnNavigation", FALSE)>>)
     ELSE Res(a, <<>>)

\* handle_takeoff_event
handle_takeoff_event(a, runway_id, w) ==
  LET rwy == FindRunway(find_airport(a, w), runway_id)
  IN IF IsTaxiing(a) /\ rwy # NoRunway
     THEN IF a.cur.kind = "Runway" /\ a.cur.name = runway_id
          THEN Res(SetFlying([a EXCEPT !.tspeed = separation_minima(a).max_speed,
                                       !.talt = a.fp_alt,
                                       !.heading = rwy.heading,
                                       !.thead = rwy.heading]),
                   <<EvB(a.id, "ResumeOwnNavigation", FALSE)>>)
          ELSE IF /\ Len(a.waypoints) > 0
                  /\ a.waypoints[1].kind = "Runway"
                  /\ a.waypoints[1].name = runway_id
               THEN Res([a EXCEPT !.waypoints[1].behavior = "Takeoff"],
                        <<Ev(a.id, "TaxiContinue")>>)
               ELSE Res(a, <<>>)
     ELSE Res(a, <<>>)

handle_parked_transition(a, w) ==
  LET ap == find_airport(a, w)
  IN IF IsParked(a) /\ ap # NoAirport
     THEN Res([a EXCEPT !.frequency = NamedFrequencyOf(ap, "ground")],
              <<EvS(a.id, "Callout", "ReadyForTaxi")>>)
     ELSE Res(a, <<>>)

\* a callout that asks for itself again
handle_callout_tara_repeats(a) == Res(a, <<Ev(a.id, "CalloutTARA")>>)

handle_callout_tara(a) == Res(a, <<EvS(a.id, "Callout", "TARAResolved")>>)

\* rng.sample_iter over the airports other than `id`: index `rnd` picks one
OtherAirports(w, id) ==
  LET n == Len(w.airports)
      idx == SeqFilterIdx(n, [i \in 1..n |-> w.airports[i].id # id], 1)
  IN Tuple([k \in 1..Len(idx) |-> w.airports[idx[k]].id], Len(idx))

\* a diversion that sets the new arrival and leaves the departure as it was
handle_approach_transition_unflipped(a, w, rnd) ==
  LET ap == find_airport(a, w)
  IN IF ap = NoAirport \/ ap.id # a.arr THEN Res(a, <<>>)
     ELSE LET b == [a EXCEPT !.segment = "Approach",
                             !.frequency = NamedFrequencyOf(ap, "approach")]
              others == OtherAirports(w, ap.id)
          IN IF ~airport_status(w, ap.id).divert_arrivals
             THEN Res([b EXCEPT !.thead = angle_between_points(a.x, ap.cx)],
                      <<EvS(a.id, "Callout", "ArriveInAirspace")>>)
             ELSE IF Len(others) > 0
                  THEN Res([b EXCEPT
                              !.arr = others[((rnd - 1) % Len(others)) + 1]],
                           <<EvB(a.id, "ResumeOwnNavigation", TRUE)>>)
                  ELSE Res(b, <<>>)

handle_approach_transition(a, w, rnd) ==
  LET ap == find_airport(a, w)
  IN IF ap = NoAirport \/ ap.id # a.arr THEN Res(a, <<>>)
     ELSE LET b == [a EXCEPT !.segment = "Approach",
                             !.frequency = NamedFrequencyOf(ap, "approach")]
              others == OtherAirports(w, ap.id)
          IN IF ~airport_status(w, ap.id).divert_arrivals
             THEN Res([b EXCEPT !.thead = angle_between_points(a.x, ap.cx)],
                      <<EvS(a.id, "Callout", "ArriveInAirspace")>>)
             ELSE IF Len(others) > 0
                  THEN Res([flip_flight_plan(b) EXCEPT
                              !.arr = others[((rnd - 1) % Len(others)) + 1]],
                           <<EvB(a.id, "ResumeOwnNavigation", TRUE)>>)
                  ELSE Res(b, <<>>)

\* Pathfinder::path_to (the taxi graph is an external collaborator): the path
\* to a destination of the airport's graph is the destination node itself;
\* the empty sequence stands for "no path"
path_to(ap, from, dest) ==
  IF [name |-> dest.name, kind |-> dest.kind] \in ap.taxi_nodes
  THEN <<Node(dest.name, dest.kind, dest.behavior, 0)>>
  ELSE <<>>

\* Node::name_and_kind_eq
name_and_kind_eq(n1, n2) == n1.name = n2.name /\ n1.kind = n2.kind

RECURSIVE TaxiLegsKeepsFound(_, _, _, _, _)
\* a loop over the destinations that keeps the legs found before a failure
TaxiLegsKeepsFound(ap, dests, i, curr, acc) ==
  IF i > Len(dests) THEN [ok |-> TRUE, wps |-> acc]
  ELSE LET path == path_to(ap, curr, dests[i])
       IN IF path = <<>> THEN [ok |-> TRUE, wps |-> acc]
          ELSE TaxiLegsKeepsFound(ap, dests, i + 1, path[Len(path)], acc \o path)

RECURSIVE TaxiLegs(_, _, _, _, _)
\* the loop over the destinations: [ok, wps], ok = FALSE once a leg has no path
TaxiLegs(ap, dests, i, curr, acc) ==
  IF i > Len(dests) THEN [ok |-> TRUE, wps |-> acc]
  ELSE LET path == path_to(ap, curr, dests[i])
       IN IF path = <<>> THEN [ok |-> FALSE, wps |-> acc]
          ELSE TaxiLegs(ap, dests, i + 1, path[Len(path)], acc \o path)

\* a Taxi that keeps the waypoints in the order of the legs
handle_taxi_event_unreversed(a, waypoint_strings, ap, w) ==
  LET skip == /\ Len(waypoint_strings) > 0
              /\ name_and_kind_eq(waypoint_strings[1], a.cur)
      legs == TaxiLegs(ap, waypoint_strings, IF skip THEN 2 ELSE 1, a.cur, <<>>)
      last == legs.wps[Len(legs.wps)]
      here == find_airport(a, w)
      withGate ==
        IF /\ Len(legs.wps) > 0
           /\ last.kind = "Gate"
           /\ here # NoAirport
           /\ last.name \in Range(here.gates)
        THEN Append(legs.wps, Node(last.name, last.kind, "Park", 0))
        ELSE legs.wps
      all_waypoints == withGate
  IN IF ~legs.ok \/ withGate = <<>> THEN Res(a, <<>>)
     ELSE Res(IF IsTaxiing(a)
              THEN [a EXCEPT !.waypoints = all_waypoints]
              ELSE SetTaxiing(a, a.cur, all_waypoints, "Armed"),
              <<Ev(a.id, "TaxiContinue")>>)

\* handle_taxi_event
handle_taxi_event(a, waypoint_strings, ap, w) ==
  LET skip == /\ Len(waypoint_strings) > 0
              /\ name_and_kind_eq(waypoint_strings[1], a.cur)
      legs == TaxiLegs(ap, waypoint_strings, IF skip THEN 2 ELSE 1, a.cur, <<>>)
      last == legs.wps[Len(legs.wps)]
      here == find_airport(a, w)
      withGate ==
        IF /\ Len(legs.wps) > 0
           /\ last.kind = "Gate"
           /\ here # NoAirport
           /\ last.name \in Range(here.gates)
        THEN Append(legs.wps, Node(last.name, last.kind, "Park", 0))
        ELSE legs.wps
      all_waypoints == Reverse(withGate)
  IN IF ~legs.ok \/ withGate = <<>> THEN Res(a, <<>>)
     ELSE Res(IF IsTaxiing(a)
              THEN [a EXCEPT !.waypoints = all_waypoints]
              ELSE SetTaxiing(a, a.cur, all_waypoints, "Armed"),
              <<Ev(a.id, "TaxiContinue")>>)

RECURSIVE Track(_, _, _, _)
\* the en-route waypoints from cmp (an x position) towards the arrival:
\* repeatedly the first waypoint of the world that keeps the course
Track(w, cmp, arrival_x, main_course) ==
  LET n == Len(w.waypoints)
      ok == [i \in 1..n |->
               /\ w.waypoints[i].x # cmp
               /\ Abs(delta_angle(angle_between_points(cmp, w.waypoints[i].x),
                                  main_course)) <= 45
               /\ Abs(delta_angle(angle_between_points(w.waypoints[i].x, arrival_x),
                                  main_course)) <= 45
               /\ w.waypoints[i].x # arrival_x
               /\ Abs(cmp - w.waypoints[i].x) <= 90 * 6076]
      idx == SeqFilterIdx(n, ok, 1)
  IN IF idx = <<>> THEN <<>>
     ELSE <<Node(w.waypoints[idx[1]].name, "VOR", "GoTo", w.waypoints[idx[1]].x)>>
            \o Track(w, w.waypoints[idx[1]].x, arrival_x, main_course)

EAST_CRUISE_ALTITUDE == 37000
WEST_CRUISE_ALTITUDE == 38000

\* ResumeOwnNavigation that keeps the SID in the plan of a diverted aircraft
handle_resume_keeps_sid(a, diversion, w) ==
  IF IsFlying(a) /\ HasAirport(w, a.dep) /\ HasAirport(w, a.arr)
  THEN LET departure == WorldAirport(w, a.dep)
           arrival == WorldAirport(w, a.arr)
           main_course_heading == angle_between_points(departure.cx, arrival.cx)
           transition_sid == move_towards(departure.cx, arrival.cx, 30 * 6076)
           transition_star == move_towards(arrival.cx, departure.cx, 30 * 6076)
           cruise_alt == IF main_course_heading >= 0 /\ main_course_heading < 180
                         THEN EAST_CRUISE_ALTITUDE ELSE WEST_CRUISE_ALTITUDE
           wp_sid == Node("SID", "VOR", "GoTo", transition_sid)
           wp_star == Node("STAR", "VOR", "GoTo", transition_star)
           track == Track(w, departure.cx, arrival.cx, main_course_heading)
           waypoints == <<wp_sid>> \o track \o <<wp_star>>
           sid_events == <<EvN(a.id, "SpeedAtOrAbove", a.fp_speed),
                           EvN(a.id, "AltitudeAtOrAbove", cruise_alt),
                           EvN(a.id, "Frequency",
                               NamedFrequencyOf(departure, "center"))>>
       IN Res([clear_waypoints(a) EXCEPT !.fp_wps = waypoints],
              IF diversion THEN sid_events ELSE <<>>)
  ELSE Res(a, <<>>)

\* EventKind::ResumeOwnNavigation { diversion }
handle_resume_own_navigation(a, diversion, w) ==
  IF IsFlying(a) /\ HasAirport(w, a.dep) /\ HasAirport(w, a.arr)
  THEN LET departure == WorldAirport(w, a.dep)
           arrival == WorldAirport(w, a.arr)
           main_course_heading == angle_between_points(departure.cx, arrival.cx)
           transition_sid == move_towards(departure.cx, arrival.cx, 30 * 6076)
           transition_star == move_towards(arrival.cx, departure.cx, 30 * 6076)
           cruise_alt == IF main_course_heading >= 0 /\ main_course_heading < 180
                         THEN EAST_CRUISE_ALTITUDE ELSE WEST_CRUISE_ALTITUDE
           wp_sid == Node("SID", "VOR", "GoTo", transition_sid)
           wp_star == Node("STAR", "VOR", "GoTo", transition_star)
           track == Track(w, departure.cx, arrival.cx, main_course_heading)
           waypoints == (IF ~diversion THEN <<wp_sid>> ELSE <<>>)
                          \o track \o <<wp_star>>
           sid_events == <<EvN(a.id, "SpeedAtOrAbove", a.fp_speed),
                           EvN(a.id, "AltitudeAtOrAbove", cruise_alt),
                           EvN(a.id, "Frequency",
                               NamedFrequencyOf(departure, "center"))>>
       IN Res([clear_waypoints(a) EXCEPT !.fp_wps = waypoints],
              IF diversion THEN sid_events ELSE <<>>)
  ELSE Res(a, <<>>)

\* a search that counts the positions from 1
find_position_from_one(wps, name) ==
  LET hits == {i \in 1..Len(wps) : wps[i].name = name}
  IN IF hits = {} THEN -1
     ELSE CHOOSE i \in hits : \A j \in hits : i <= j

\* find_position(|w| w.name == name): the 0-based index of the first match, -1
find_position(wps, name) ==
  LET hits == {i \in 1..Len(wps) : wps[i].name = name}
  IN IF hits = {} THEN -1
     ELSE (CHOOSE i \in hits : \A j \in hits : i <= j) - 1

\* a Heading that cancels the flight plan of a landing aircraft too
handle_heading_cancels_both(a, heading) ==
  IF IsFlying(a) \/ IsLanding(a)
  THEN [stop_following(a) EXCEPT !.thead = heading, !.course_offset = 0]
  ELSE a

\* EventKind::Heading
handle_heading(a, heading) ==
  IF IsFlying(a)
  THEN [stop_following(a) EXCEPT !.thead = heading, !.course_offset = 0]
  ELSE IF IsLanding(a) THEN [a EXCEPT !.thead = heading]
  ELSE a

\* a go-around that climbs to 2000 ft only
handle_go_around_low(a) ==
  IF IsLanding(a)
  THEN Res(sync_targets_to_vals(
             [stop_following(SetFlying(a)) EXCEPT !.course_offset = 0]),
           <<EvN(a.id, "AltitudeAtOrAbove", 2000),
             EvN(a.id, "SpeedAtOrAbove", 250)>>)
  ELSE Res(a, <<>>)

\* EventKind::GoAround
handle_go_around(a) ==
  IF IsLanding(a)
  THEN Res(sync_targets_to_vals(
             [stop_following(SetFlying(a)) EXCEPT !.course_offset = 0]),
           <<EvN(a.id, "AltitudeAtOrAbove", 3000),
             EvN(a.id, "SpeedAtOrAbove", 250)>>)
  ELSE Res(a, <<>>)

\* a TaxiContinue that arms a stopped aircraft
handle_taxi_continue_arms(a) ==
  IF IsTaxiing(a)
  THEN [a EXCEPT !.sub = CASE a.sub \in {"Holding", "Stopped"} -> "Armed"
                           [] OTHER -> a.sub,
                 !.tspeed = 20]
  ELSE a

\* EventKind::TaxiContinue
handle_taxi_continue(a) ==
  IF IsTaxiing(a)
  THEN [a EXCEPT !.sub = CASE a.sub = "Holding" -> "Armed"
                           [] a.sub = "Stopped" -> "Override"
                           [] OTHER -> a.sub,
                 !.tspeed = 20]
  ELSE a

\* EventKind::TaxiHold { and_state }
handle_taxi_hold(a, force) ==
  IF IsTaxiing(a)
  THEN [a EXCEPT !.tspeed = 0, !.speed = 0,
                 !.sub = IF force THEN "Holding" ELSE a.sub]
  ELSE IF IsParked(a) THEN [a EXCEPT !.tspeed = 0, !.speed = 0]
  ELSE a

\* a LineUp that does not compare the name of the runway
handle_line_up_any_runway(a, runway) ==
  IF IsTaxiing(a)
  THEN Res(IF Len(a.waypoints) > 0 /\ a.waypoints[1].kind = "Runway"
           THEN [a EXCEPT !.waypoints[1].behavior = "LineUp"]
           ELSE a,
           <<Ev(a.id, "TaxiContinue")>>)
  ELSE Res(a, <<>>)

\* EventKind::LineUp
handle_line_up(a, runway) ==
  IF IsTaxiing(a)
  THEN Res(IF /\ Len(a.waypoints) > 0
              /\ a.waypoints[1].kind = "Runway"
              /\ a.waypoints[1].name = runway
           THEN [a EXCEPT !.waypoints[1].behavior = "LineUp"]
           ELSE a,
           <<Ev(a.id, "TaxiContinue")>>)
  ELSE Res(a, <<>>)

\* EventKind::Segment(prev, segment)
handle_segment(a, prev, segment, w, rnd) ==
  LET b == [a EXCEPT !.segment = segment]
  IN CASE segment = "Parked" /\ prev = "Boarding" -> handle_parked_transition(b, w)
       [] segment = "Parked" /\ prev = "TaxiArr" ->
            Res(b, <<EvSegment(a.id, b.segment, "Dormant")>>)
       [] segment = "Approach" /\ prev = "Arrival" ->
            handle_approach_transition(b, w, rnd)
       [] OTHER -> Res(b, <<>>)

handle_aircraft_event(a, e, w, rnd) ==
  CASE e.kind = "Speed" -> Res([a EXCEPT !.tspeed = e.n], <<>>)
    [] e.kind = "SpeedAtOrBelow" ->
         Res(IF a.tspeed > e.n THEN [a EXCEPT !.tspeed = e.n] ELSE a, <<>>)
    [] e.kind = "SpeedAtOrAbove" ->
         Res(IF a.tspeed < e.n THEN [a EXCEPT !.tspeed = e.n] ELSE a, <<>>)
    [] e.kind = "Heading" -> Res(handle_heading(a, e.n), <<>>)
    [] e.kind = "Altitude" -> Res([a EXCEPT !.talt = e.n], <<>>)
    [] e.kind = "AltitudeAtOrBelow" ->
         Res(IF a.talt > e.n THEN [a EXCEPT !.talt = e.n] ELSE a, <<>>)
    [] e.kind = "AltitudeAtOrAbove" ->
         Res(IF a.talt < e.n THEN [a EXCEPT !.talt = e.n] ELSE a, <<>>)
    [] e.kind = "Frequency" -> Res([a EXCEPT !.frequency = e.n], <<>>)
    [] e.kind = "NamedFrequency" ->
         LET ap == IF a.airspace = "none" THEN NoAirport
                   ELSE WorldAirport(w, a.airspace)
             f == NamedFrequencyOf(ap, e.s)
         IN Res(IF ap # NoAirport /\ f # -1 THEN [a EXCEPT !.frequency = f] ELSE a,
                <<>>)
    [] e.kind = "ResumeOwnNavigation" -> handle_resume_own_navigation(a, e.b, w)
    [] e.kind = "Direct" ->
         LET index == find_position(a.fp_wps, e.s)
         IN Res(IF index # -1 THEN set_index(a, index) ELSE a, <<>>)
    [] e.kind = "AmendAndFollow" -> Res(start_following(amend_end(a, e.ns)), <<>>)
    [] e.kind = "Land" -> handle_land_event(a, e.s, w)
    [] e.kind = "GoAround" -> handle_go_around(a)
    [] e.kind = "Touchdown" ->
         Res(IF IsLanding(a) THEN handle_touchdown_event(a) ELSE a, <<>>)
    [] e.kind = "Takeoff" ->
         IF IsTaxiing(a) THEN handle_takeoff_event(a, e.s, w) ELSE Res(a, <<>>)
    [] e.kind = "Taxi" ->
         IF (IsTaxiing(a) \/ IsParked(a)) /\ find_airport(a, w) # NoAirport
         THEN handle_taxi_event(a, e.ns, find_airport(a, w), w)
         ELSE Res(a, <<>>)
    [] e.kind = "TaxiContinue" -> Res(handle_taxi_continue(a), <<>>)
    [] e.kind = "TaxiHold" -> Res(handle_taxi_hold(a, e.b), <<>>)
    [] e.kind = "LineUp" -> handle_line_up(a, e.s)
    [] e.kind = "Ident" -> Res(a, <<EvS(a.id, "Callout", "Empty")>>)
    [] e.kind = "Callout" -> Res(a, <<>>)
    [] e.kind = "CalloutTARA" -> handle_callout_tara(a)
    [] e.kind = "Segment" -> handle_segment(a, e.s, e.s2, w, rnd)
    [] e.kind = "Delete" -> Res(a, <<Ev(a.id, "Delete")>>)
    [] OTHER -> Res(a, <<>>)

-----------------------------------------------------------------------------
(* Engine passes: engine/src/engine.rs                                     *)

MAX_TAXI_SPEED == 20

Ids(ac) == {ac[i].id : i \in 1..Len(ac)}

\* itertools combinations(2) over indices 1..n, in lexicographic order
RECURSIVE Combinations2(_, _, _)
Combinations2(n, i, j) ==
  IF i >= n THEN <<>>
  ELSE IF j > n THEN Combinations2(n, i + 1, i + 2)
  ELSE <<(<<i, j>>)>> \o Combinations2(n, i, j + 1)

\* a gate test that looks at parked aircraft only
GateTakenByParked(ac, airport, gate) ==
  \E i \in 1..Len(ac) :
    /\ ac[i].airspace # "none"
    /\ ac[i].airspace = airport.id
    /\ IsParked(ac[i]) /\ ac[i].cur.name = gate

\* Engine::compute_available_gates: gate.available of every gate
GateTaken(ac, airport, gate) ==
  \E i \in 1..Len(ac) :
    /\ ac[i].airspace # "none"
    /\ ac[i].airspace = airport.id
    /\ \/ IsParked(ac[i]) /\ ac[i].cur.name = gate
       \/ /\ IsTaxiing(ac[i])
          /\ \E nd \in Range(ac[i].waypoints) \cup {ac[i].cur} :
               nd.name = gate /\ nd.kind = "Gate"

compute_available_gates(ac, w) ==
  Tuple([i \in 1..Len(w.airports) |->
           Tuple([g \in 1..Len(w.airports[i].gates) |->
                    ~GateTaken(ac, w.airports[i], w.airports[i].gates[g])],
                 Len(w.airports[i].gates))],
        Len(w.airports))

\* Aircraft::climb_speed, feet per second
climb_speed(a) == 33

\* (500 / climb_speed) * speed * KNOT_TO_FEET_PER_SECOND, in whole feet
feet_to_descend(a) == (500 * a.speed * 1688) \div (climb_speed(a) * 1000)

\* an advisory choice that sends the higher aircraft down
TcasPairInverted(a, o) ==
  LET distance == distance_squared(a.x, o.x)
      vertical_distance == Abs(a.altitude - o.altitude)
      both_are_flying == IsFlying(a) /\ IsFlying(o)
      both_are_above == a.altitude > 2000 /\ o.altitude > 2000
      total_distance == feet_to_descend(a) + feet_to_descend(o)
      a_angle == delta_angle(angle_between_points(a.x, o.x), a.heading)
      b_angle == delta_angle(angle_between_points(o.x, a.x), o.heading)
      facing == Abs(a_angle) < 90 \/ Abs(b_angle) < 90
      in_ta_threshold == /\ vertical_distance < 2000
                         /\ distance <= (total_distance * 2) * (total_distance * 2)
      in_ra_threshold == /\ vertical_distance < 1000
                         /\ distance <= total_distance * total_distance
  IN IF ~both_are_flying \/ ~both_are_above \/ ~facing THEN <<>>
     ELSE IF in_ra_threshold
          THEN IF a.altitude > o.altitude THEN <<"Descend", "Climb">>
               ELSE <<"Climb", "Descend">>
     ELSE IF in_ta_threshold
          THEN <<IF is_ra(a.tcas) THEN "Hold" ELSE "Warning",
                 IF is_ra(o.tcas) THEN "Hold" ELSE "Warning">>
     ELSE <<>>

\* a traffic advisory that forgets the resolution the aircraft came from
TcasPairWarnsOnly(a, o) ==
  LET distance == distance_squared(a.x, o.x)
      vertical_distance == Abs(a.altitude - o.altitude)
      both_are_flying == IsFlying(a) /\ IsFlying(o)
      both_are_above == a.altitude > 2000 /\ o.altitude > 2000
      total_distance == feet_to_descend(a) + feet_to_descend(o)
      a_angle == delta_angle(angle_between_points(a.x, o.x), a.heading)
      b_angle == delta_angle(angle_between_points(o.x, a.x), o.heading)
      facing == Abs(a_angle) < 90 \/ Abs(b_angle) < 90
      in_ta_threshold == /\ vertical_distance < 2000
                         /\ distance <= (total_distance * 2) * (total_distance * 2)
      in_ra_threshold == /\ vertical_distance < 1000
                         /\ distance <= total_distance * total_distance
  IN IF ~both_are_flying \/ ~both_are_above \/ ~facing THEN <<>>
     ELSE IF in_ra_threshold
          THEN IF a.altitude < o.altitude THEN <<"Descend", "Climb">>
               ELSE <<"Climb", "Descend">>
     ELSE IF in_ta_threshold
          THEN <<"Warning", "Warning">>
     ELSE <<>>

\* a pass that advises traffic at any altitude
TcasPairAnyAltitude(a, o) ==
  LET distance == distance_squared(a.x, o.x)
      vertical_distance == Abs(a.altitude - o.altitude)
      both_are_flying == IsFlying(a) /\ IsFlying(o)
      both_are_above == TRUE
      total_distance == feet_to_descend(a) + feet_to_descend(o)
      a_angle == delta_angle(angle_between_points(a.x, o.x), a.heading)
      b_angle == delta_angle(angle_between_points(o.x, a.x), o.heading)
      facing == Abs(a_angle) < 90 \/ Abs(b_angle) < 90
      in_ta_threshold == /\ vertical_distance < 2000
                         /\ distance <= (total_distance * 2) * (total_distance * 2)
      in_ra_threshold == /\ vertical_distance < 1000
                         /\ distance <= total_distance * total_distance
  IN IF ~both_are_flying \/ ~both_are_above \/ ~facing THEN <<>>
     ELSE IF in_ra_threshold
          THEN IF a.altitude < o.altitude THEN <<"Descend", "Climb">>
               ELSE <<"Climb", "Descend">>
     ELSE IF in_ta_threshold
          THEN <<IF is_ra(a.tcas) THEN "Hold" ELSE "Warning",
                 IF is_ra(o.tcas) THEN "Hold" ELSE "Warning">>
     ELSE <<>>

\* the advisory one pair assigns: <<tcas of the first, tcas of the second>>,
\* or <<>> when the pair assigns none
TcasPair(a, o) ==
  LET distance == distance_squared(a.x, o.x)
      vertical_distance == Abs(a.altitude - o.altitude)
      both_are_flying == IsFlying(a) /\ IsFlying(o)
      both_are_above == a.altitude > 2000 /\ o.altitude > 2000
      total_distance == feet_to_descend(a) + feet_to_descend(o)
      a_angle == delta_angle(angle_between_points(a.x, o.x), a.heading)
      b_angle == delta_angle(angle_between_points(o.x, a.x), o.heading)
      facing == Abs(a_angle) < 90 \/ Abs(b_angle) < 90
      in_ta_threshold == /\ vertical_distance < 2000
                         /\ distance <= (total_distance * 2) * (total_distance * 2)
      in_ra_threshold == /\ vertical_distance < 1000
                         /\ distance <= total_distance * total_distance
  IN IF ~both_are_flying \/ ~both_are_above \/ ~facing THEN <<>>
     ELSE IF in_ra_threshold
          THEN IF a.altitude < o.altitude THEN <<"Descend", "Climb">>
               ELSE <<"Climb", "Descend">>
     ELSE IF in_ta_threshold
          THEN <<IF is_ra(a.tcas) THEN "Hold" ELSE "Warning",
                 IF is_ra(o.tcas) THEN "Hold" ELSE "Warning">>
     ELSE <<>>

RECURSIVE TcasCollisions(_, _, _, _)
\* the collisions map after the pairs k.. of the loop: id -> TCAS or "None"
TcasCollisions(ac, pairs, k, collisions) ==
  IF k > Len(pairs) THEN collisions
  ELSE LET a == ac[pairs[k][1]]
           o == ac[pairs[k][2]]
           adv == TcasPair(a, o)
       IN TcasCollisions(ac, pairs, k + 1,
            IF adv = <<>> THEN collisions
            ELSE [[collisions EXCEPT ![a.id] = adv[1]] EXCEPT ![o.id] = adv[2]])

\* a final loop that calls out every return to Idle
TcasApplyCallsOutAll(a, collisions) ==
  IF collisions[a.id] # "None" THEN Res([a EXCEPT !.tcas = collisions[a.id]], <<>>)
  ELSE IF ~is_idle(a.tcas)
       THEN Res([a EXCEPT !.tcas = "Idle"], <<Ev(a.id, "CalloutTARA")>>)
  ELSE Res(a, <<>>)

\* the final loop of handle_tcas for one aircraft
TcasApply(a, collisions) ==
  IF collisions[a.id] # "None" THEN Res([a EXCEPT !.tcas = collisions[a.id]], <<>>)
  ELSE IF ~is_idle(a.tcas)
       THEN Res([a EXCEPT !.tcas = "Idle"],
                IF is_ra(a.tcas) THEN <<Ev(a.id, "CalloutTARA")>> ELSE <<>>)
  ELSE Res(a, <<>>)

RECURSIVE Flatten(_, _)
\* the concatenation of a sequence of event sequences
Flatten(ss, i) == IF i > Len(ss) THEN <<>> ELSE ss[i] \o Flatten(ss, i + 1)

\* Engine::handle_tcas: [aircraft, events]
handle_tcas(ac) ==
  LET collisions == TcasCollisions(ac, Combinations2(Len(ac), 1, 2), 1,
                                   [id \in Ids(ac) |-> "None"])
      res == Tuple([i \in 1..Len(ac) |-> TcasApply(ac[i], collisions)], Len(ac))
  IN [aircraft |-> Tuple([i \in 1..Len(ac) |-> res[i].a], Len(ac)),
      events |-> Flatten([i \in 1..Len(ac) |-> res[i].out], 1)]

\* sin/cos of a bearing difference on the axis (0 or +-180 degrees)
CosDeg(d) == IF d = 0 THEN 1 ELSE IF Abs(d) = 180 THEN -1 ELSE 0
SinAbsDeg(d) == IF d = 0 \/ Abs(d) = 180 THEN 0 ELSE 1

\* whether `a` is marked as colliding by the pair (a, o)
TaxiMarked(a, o) ==
  LET d2 == distance_squared(a.x, o.x)
      diff_angle == delta_angle(a.heading, angle_between_points(a.x, o.x))
      rel_x == d2 * SinAbsDeg(diff_angle)
      rel_y == d2 * CosDeg(diff_angle)
  IN /\ rel_y >= 0
     /\ rel_x <= 120 * 120
     /\ rel_y <= 150 * 150
     /\ a.speed <= MAX_TAXI_SPEED

\* a pair check that looks at every airport, automated or not
TaxiPairCheckedAnyAirport(a, o, w) ==
  /\ a.airspace = o.airspace
  /\ ~(IsParked(a) /\ IsParked(o))

\* the pairs of taxi_collisions that are checked (not skipped by `continue`)
TaxiPairChecked(a, o, w) ==
  /\ a.airspace = o.airspace
  /\ ~(IsParked(a) /\ IsParked(o))
  /\ ~(a.airspace # "none" /\ ~airport_status(w, a.airspace).automate_ground)

\* the collisions set of taxi_collisions
TaxiCollisions(ac, w) ==
  LET n == Len(ac)
      ground == SeqFilterIdx(n, [i \in 1..n |-> IsTaxiing(ac[i]) \/ IsParked(ac[i])], 1)
      pairs == Combinations2(Len(ground), 1, 2)
  IN UNION {LET a == ac[ground[pairs[k][1]]]
                o == ac[ground[pairs[k][2]]]
            IN IF TaxiPairChecked(a, o, w)
               THEN (IF TaxiMarked(a, o) THEN {a.id} ELSE {})
                      \cup (IF TaxiMarked(o, a) THEN {o.id} ELSE {})
               ELSE {} : k \in 1..Len(pairs)}

\* a final loop that stops conflicting aircraft but never re-arms one
TaxiResolveNeverRearms(a, collisions) ==
  IF IsTaxiing(a) /\ a.id \in collisions /\ a.sub = "Armed"
  THEN Res([a EXCEPT !.sub = "Stopped"], <<EvB(a.id, "TaxiHold", FALSE)>>)
  ELSE Res(a, <<>>)

\* a final loop that stops a conflicting aircraft in Override like an Armed one
TaxiResolveStopsOverride(a, collisions) ==
  IF ~IsTaxiing(a) THEN Res(a, <<>>)
  ELSE IF a.id \in collisions /\ a.sub \in {"Armed", "Override"}
       THEN Res([a EXCEPT !.sub = "Stopped"], <<EvB(a.id, "TaxiHold", FALSE)>>)
  ELSE IF a.id \notin collisions /\ a.sub \in {"Override", "Stopped"}
       THEN Res([a EXCEPT !.sub = "Armed"],
                IF a.sub = "Stopped" THEN <<Ev(a.id, "TaxiContinue")>> ELSE <<>>)
  ELSE Res(a, <<>>)

\* the final loop of taxi_collisions for one aircraft
TaxiResolve(a, collisions) ==
  IF ~IsTaxiing(a) THEN Res(a, <<>>)
  ELSE IF a.id \in collisions /\ a.sub = "Armed"
       THEN Res([a EXCEPT !.sub = "Stopped"], <<EvB(a.id, "TaxiHold", FALSE)>>)
  ELSE IF a.id \notin collisions /\ a.sub \in {"Override", "Stopped"}
       THEN Res([a EXCEPT !.sub = "Armed"],
                IF a.sub = "Stopped" THEN <<Ev(a.id, "TaxiContinue")>> ELSE <<>>)
  ELSE Res(a, <<>>)

\* Engine::taxi_collisions: [aircraft, events]
taxi_collisions(ac, w) ==
  LET collisions == TaxiCollisions(ac, w)
      res == Tuple([i \in 1..Len(ac) |-> TaxiResolve(ac[i], collisions)], Len(ac))
  IN [aircraft |-> Tuple([i \in 1..Len(ac) |-> res[i].a], Len(ac)),
      events |-> Flatten([i \in 1..Len(ac) |-> res[i].out], 1)]

NAUTICALMILES_TO_FEET == 6076

F32_MAX == 2000000000

\* FlightPlan::distances(pos).last(): the length of the path from pos through
\* the active waypoints (lateral legs are measured by their components)
RECURSIVE PathLength(_, _, _, _)
PathLength(wps, i, x, y) ==
  IF i > Len(wps) THEN 0
  ELSE Abs(wps[i].x - x) + Abs(wps[i].y - y)
         + PathLength(wps, i + 1, wps[i].x, wps[i].y)

distance_to_last(a) ==
  IF active_waypoints(a) = <<>> THEN F32_MAX
  ELSE PathLength(active_waypoints(a), 1, a.x, 0)

\* FlightPlan::turn_bias: the side of the next turn
turn_bias(a) == a.turn_bias

\* a filter that does not look at the segment
ApproachFilterAnySegment(ac, w) ==
  LET n == Len(ac)
  IN SeqFilterIdx(n,
       [i \in 1..n |->
          \/ /\ ac[i].airspace # "none"
             /\ ac[i].airspace = ac[i].arr \/ ac[i].airspace = ac[i].dep
             /\ airport_status(w, ac[i].airspace).automate_air
          \/ ac[i].airspace = "none"], 1)

\* the aircraft auto-approach spaces, as indices in aircraft order
ApproachFilter(ac, w) ==
  LET n == Len(ac)
  IN SeqFilterIdx(n,
       [i \in 1..n |->
          /\ in_air(ac[i].segment)
          /\ \/ /\ ac[i].airspace # "none"
                /\ ac[i].airspace = ac[i].arr \/ ac[i].airspace = ac[i].dep
                /\ airport_status(w, ac[i].airspace).automate_air
             \/ ac[i].airspace = "none"], 1)

\* the key of the HashMap: (airspace or arriving airport, name of the last
\* active waypoint or "")
ApproachKey(a) ==
  <<IF a.airspace # "none" THEN a.airspace ELSE a.arr,
    IF active_waypoints(a) = <<>> THEN ""
    ELSE active_waypoints(a)[Len(active_waypoints(a))].name>>

RECURSIVE DistinctKeys(_, _, _, _)
\* the distinct keys of the filtered aircraft, in order of first appearance
DistinctKeys(ac, idx, k, acc) ==
  IF k > Len(idx) THEN acc
  ELSE DistinctKeys(ac, idx, k + 1,
         IF ApproachKey(ac[idx[k]]) \in Range(acc) THEN acc
         ELSE Append(acc, ApproachKey(ac[idx[k]])))

\* the entry of one key: the indices of its aircraft in aircraft order
GroupOf(ac, idx, key) ==
  LET m == Len(idx)
      pos == SeqFilterIdx(m, [k \in 1..m |-> ApproachKey(ac[idx[k]]) = key], 1)
  IN Tuple([k \in 1..Len(pos) |-> idx[pos[k]]], Len(pos))

RECURSIVE InsertByDistance(_, _, _)
\* item i inserted into the sorted sequence after every item not farther
InsertByDistance(ac, sorted, i) ==
  IF sorted = <<>> THEN <<i>>
  ELSE IF distance_to_last(ac[sorted[Len(sorted)]]) <= distance_to_last(ac[i])
       THEN Append(sorted, i)
  ELSE Append(InsertByDistance(ac, SubSeq(sorted, 1, Len(sorted) - 1), i),
              sorted[Len(sorted)])

RECURSIVE SortByDistance(_, _, _, _)
\* the stable sort_by of a group by ascending distance to the last waypoint
SortByDistance(ac, group, k, acc) ==
  IF k > Len(group) THEN acc
  ELSE SortByDistance(ac, group, k + 1, InsertByDistance(ac, acc, group[k]))

\* a follower entry that deviates by twice the maximum angle
FollowerSpeedWide(ac, sorted, k) ==
  LET a == ac[sorted[k]]
      minima == separation_minima(a)
      diff == distance_to_last(a) - distance_to_last(ac[sorted[k - 1]])
      half_sep == minima.separation_distance \div 2
      direction == -sign3(turn_bias(a))
  IN IF diff < minima.separation_distance
     THEN IF diff < half_sep
          THEN [id |-> a.id, speed |-> minima.min_speed,
                offset |-> 2 * minima.max_deviation_angle * direction]
          ELSE [id |-> a.id,
                speed |-> Min(minima.min_speed
                                + ((diff - half_sep)
                                     * (minima.max_speed - minima.min_speed))
                                    \div half_sep,
                              minima.max_speed),
                offset |-> 0]
     ELSE [id |-> a.id, speed |-> minima.max_speed, offset |-> 0]

\* the speeds entry (id, speed, offset) of the follower at index k of a sorted
\* group
FollowerSpeed(ac, sorted, k) ==
  LET a == ac[sorted[k]]
      minima == separation_minima(a)
      diff == distance_to_last(a) - distance_to_last(ac[sorted[k - 1]])
      half_sep == minima.separation_distance \div 2
      direction == -sign3(turn_bias(a))
  IN IF diff < minima.separation_distance
     THEN IF diff < half_sep
          THEN [id |-> a.id, speed |-> minima.min_speed,
                offset |-> minima.max_deviation_angle * direction]
          ELSE [id |-> a.id,
                speed |-> Min(minima.min_speed
                                + ((diff - half_sep)
                                     * (minima.max_speed - minima.min_speed))
                                    \div half_sep,
                              minima.max_speed),
                offset |-> 0]
     ELSE [id |-> a.id, speed |-> minima.max_speed, offset |-> 0]

\* speeds entries that measure every follower against the leader of the group
GroupSpeedsBehindLeader(ac, group) ==
  LET sorted == SortByDistance(ac, group, 1, <<>>)
  IN Tuple([k \in 1..Len(sorted) |->
              IF k = 1
              THEN [id |-> ac[sorted[1]].id,
                    speed |-> separation_minima(ac[sorted[1]]).max_speed,
                    offset |-> 0]
              ELSE FollowerSpeed(ac, <<sorted[1], sorted[k]>>, 2)],
           Len(sorted))

\* the speeds entries of one group
GroupSpeeds(ac, group) ==
  LET sorted == SortByDistance(ac, group, 1, <<>>)
  IN Tuple([k \in 1..Len(sorted) |->
              IF k = 1
              THEN [id |-> ac[sorted[1]].id,
                    speed |-> separation_minima(ac[sorted[1]]).max_speed,
                    offset |-> 0]
              ELSE FollowerSpeed(ac, sorted, k)],
           Len(sorted))

\* the speeds list: the groups in the iteration order `perm` of the HashMap
ApproachSpeeds(ac, w, perm) ==
  LET idx == ApproachFilter(ac, w)
      keys == DistinctKeys(ac, idx, 1, <<>>)
  IN Flatten([g \in 1..Len(keys) |-> GroupSpeeds(ac, GroupOf(ac, idx, keys[perm[g]]))],
             1)

NumGroups(ac, w) == Len(DistinctKeys(ac, ApproachFilter(ac, w), 1, <<>>))

RECURSIVE ApplySpeeds(_, _, _, _)
\* the loop over speeds: [aircraft, events]
ApplySpeeds(ac, speeds, k, out) ==
  IF k > Len(speeds) THEN [aircraft |-> ac, events |-> out]
  ELSE LET hits == {i \in 1..Len(ac) : ac[i].id = speeds[k].id}
           i == CHOOSE i \in hits : \A j \in hits : i <= j
           a == ac[i]
       IN IF hits = {} \/ a.segment = "Landing"
          THEN ApplySpeeds(ac, speeds, k + 1, out)
          ELSE ApplySpeeds([ac EXCEPT ![i].course_offset = speeds[k].offset],
                           speeds, k + 1,
                           IF a.tspeed # speeds[k].speed
                           THEN Append(out, EvN(a.id, "Speed", speeds[k].speed))
                           ELSE out)

\* dedup_by(heading) then min_by(distance of the STAR to runway.start): the
\* index of the chosen runway (the first of the nearest), 0 when there is none
ChooseRunway(ap, star) ==
  LET n == Len(ap.runways)
      kept == SeqFilterIdx(n,
                [i \in 1..n |->
                   i = 1 \/ ap.runways[i].heading # ap.runways[i - 1].heading], 1)
      d(k) == distance_squared_xy(star.x - ap.runways[kept[k]].x, star.y)
      best == {k \in 1..Len(kept) : \A j \in 1..Len(kept) : d(k) <= d(j)}
  IN IF kept = <<>> THEN 0
     ELSE kept[CHOOSE k \in best : \A j \in best : k <= j]

\* FlightPlan::waypoint: the active waypoint, NoNode at the end of the plan
waypoint(a) == IF at_end(a) THEN NoNode ELSE a.fp_wps[a.fp_index + 1]

\* a landing clearance that does not look for landing traffic ahead
ApproachPatternUnseparated(ac, i, runway) ==
  LET a == ac[i]
      nm == NAUTICALMILES_TO_FEET
      f == IF runway.heading = 90 THEN 1 ELSE -1   \* forward, along the axis
      l == f                                       \* left, across the axis
      final_x == runway.x - f * 10 * nm
      to_final == angle_between_points(a.x, final_x)
      pattern == IF delta_angle(runway.heading, to_final) >= 0 THEN l ELSE -l
      base_y == pattern * 5 * nm
      reverse_downwind == Abs(delta_angle(to_final, runway.heading)) < 90
      downwind_x == IF reverse_downwind THEN final_x - f * 10 * nm
                    ELSE final_x + f * 10 * nm
      waypoints == <<NodeXY("CW", "VOR", "GoTo", downwind_x, 0),
                     NodeXY(IF reverse_downwind THEN "UW" ELSE "DW", "VOR", "GoTo",
                            downwind_x, base_y),
                     NodeXY("BS", "VOR", "GoTo", final_x, base_y),
                     NodeXY(runway.id, "VOR", "GoTo", final_x, 0)>>
      amend == IF at_end(a) THEN <<EvNodes(a.id, "AmendAndFollow", waypoints)>>
               ELSE <<>>
      descend == IF a.talt > 4000 THEN <<EvN(a.id, "Altitude", 4000)>> ELSE <<>>
      wp == waypoint(a)
      at_final == /\ wp # NoNode
                  /\ wp.x = final_x /\ wp.y = 0
                  /\ distance_squared(wp.x, a.x) <= ((nm * 3) \div 2) * ((nm * 3) \div 2)
      too_close == FALSE
      resequence == <<NodeXY("DW", "VOR", "GoTo", runway.x + f * 5 * nm, 0),
                      NodeXY("CW", "VOR", "GoTo", runway.x + f * 5 * nm,
                             pattern * 5 * nm)>>
      clearance == IF ~at_final THEN <<>>
                   ELSE IF too_close
                        THEN <<EvNodes(a.id, "AmendAndFollow", resequence)>>
                   ELSE <<EvN(a.id, "SpeedAtOrBelow", 180),
                          EvS(a.id, "Land", runway.id)>>
  IN amend \o descend \o clearance

\* the pattern and landing-clearance part of update_auto_approach for the
\* aircraft at index i, whose airport `ap` has the runway `runway`
ApproachPattern(ac, i, runway) ==
  LET a == ac[i]
      nm == NAUTICALMILES_TO_FEET
      f == IF runway.heading = 90 THEN 1 ELSE -1   \* forward, along the axis
      l == f                                       \* left, across the axis
      final_x == runway.x - f * 10 * nm
      to_final == angle_between_points(a.x, final_x)
      pattern == IF delta_angle(runway.heading, to_final) >= 0 THEN l ELSE -l
      base_y == pattern * 5 * nm
      reverse_downwind == Abs(delta_angle(to_final, runway.heading)) < 90
      downwind_x == IF reverse_downwind THEN final_x - f * 10 * nm
                    ELSE final_x + f * 10 * nm
      waypoints == <<NodeXY("CW", "VOR", "GoTo", downwind_x, 0),
                     NodeXY(IF reverse_downwind THEN "UW" ELSE "DW", "VOR", "GoTo",
                            downwind_x, base_y),
                     NodeXY("BS", "VOR", "GoTo", final_x, base_y),
                     NodeXY(runway.id, "VOR", "GoTo", final_x, 0)>>
      amend == IF at_end(a) THEN <<EvNodes(a.id, "AmendAndFollow", waypoints)>>
               ELSE <<>>
      descend == IF a.talt > 4000 THEN <<EvN(a.id, "Altitude", 4000)>> ELSE <<>>
      wp == waypoint(a)
      at_final == /\ wp # NoNode
                  /\ wp.x = final_x /\ wp.y = 0
                  /\ distance_squared(wp.x, a.x) <= ((nm * 3) \div 2) * ((nm * 3) \div 2)
      too_close == \E j \in 1..Len(ac) :
                     /\ ac[j].id # a.id
                     /\ ac[j].airspace = a.airspace
                     /\ ac[j].segment = "Landing"
                     /\ distance_squared(ac[j].x, a.x)
                          < ((nm * 7) \div 2) * ((nm * 7) \div 2)
      resequence == <<NodeXY("DW", "VOR", "GoTo", runway.x + f * 5 * nm, 0),
                      NodeXY("CW", "VOR", "GoTo", runway.x + f * 5 * nm,
                             pattern * 5 * nm)>>
      clearance == IF ~at_final THEN <<>>
                   ELSE IF too_close
                        THEN <<EvNodes(a.id, "AmendAndFollow", resequence)>>
                   ELSE <<EvN(a.id, "SpeedAtOrBelow", 180),
                          EvS(a.id, "Land", runway.id)>>
  IN amend \o descend \o clearance

\* LandingState::established
established(sub) == sub = "Established"

\* the second loop of update_auto_approach for the aircraft at index i:
\* [out, panic]; panic is the unwrap of min_by on an airport without runways
ApproachStep(ac, w, i) ==
  LET a == ac[i]
      ap == WorldAirport(w, a.airspace)
      stars == {k \in 1..Len(a.fp_wps) : a.fp_wps[k].name = "STAR"}
      star == a.fp_wps[CHOOSE k \in stars : \A j \in stars : k <= j]
      rw == ChooseRunway(ap, star)
  IN IF /\ a.segment = "Approach"
        /\ a.airspace # "none"
        /\ airport_status(w, a.airspace).automate_air
     THEN IF ~HasAirport(w, a.airspace) \/ stars = {}
          THEN [out |-> <<>>, panic |-> FALSE]
          ELSE IF rw = 0 THEN [out |-> <<>>, panic |-> TRUE]
          ELSE [out |-> ApproachPattern(ac, i, ap.runways[rw]), panic |-> FALSE]
     ELSE IF a.segment = "Landing" /\ IsLanding(a) /\ established(a.sub)
          THEN [out |-> <<EvS(a.id, "NamedFrequency", "tower")>>, panic |-> FALSE]
     ELSE [out |-> <<>>, panic |-> FALSE]

\* Engine::update_auto_approach: [aircraft, events, panic]; `perm` is the
\* iteration order of the HashMap of arrival groups
update_auto_approach(ac, w, perm) ==
  LET spaced == ApplySpeeds(ac, ApproachSpeeds(ac, w, perm), 1, <<>>)
      ac2 == spaced.aircraft
      steps == Tuple([i \in 1..Len(ac2) |-> ApproachStep(ac2, w, i)], Len(ac2))
      panics == {i \in 1..Len(ac2) : steps[i].panic}
      upto == IF panics = {} THEN Len(ac2)
              ELSE (CHOOSE i \in panics : \A j \in panics : i <= j) - 1
  IN [aircraft |-> ac2,
      events |-> spaced.events \o Flatten([i \in 1..upto |-> steps[i].out], 1),
      panic |-> panics # {}]

\* a branch choice that clears a departure whatever the runway traffic
GroundBranchUngated(ac, w, avail, i) ==
  LET a == ac[i]
      apIdx == AirportIdx(w, a.airspace)
      k == CHOOSE k \in apIdx : \A j \in apIdx : k <= j
  IN IF ~(a.airspace # "none" /\ airport_status(w, a.airspace).automate_ground)
     THEN "none"
     ELSE IF a.segment = "TaxiArr" /\ a.speed <= MAX_TAXI_SPEED
          THEN IF /\ IsTaxiing(a)
                  /\ \A nd \in Range(a.waypoints) \cup {a.cur} : nd.kind # "Gate"
                  /\ apIdx # {}
                  /\ \E g \in 1..Len(avail[k]) : avail[k][g]
               THEN "gate" ELSE "none"
     ELSE IF a.segment = "Parked"
          THEN IF /\ IsParked(a) /\ apIdx # {}
                  /\ HasAirport(w, a.dep) /\ HasAirport(w, a.arr)
               THEN IF WorldAirport(w, a.dep).runways = <<>> THEN "panic"
                    ELSE "depart"
               ELSE "none"
     ELSE IF a.segment = "TaxiDep"
          THEN IF /\ IsTaxiing(a)
                  /\ a.cur.kind = "Runway"
                  /\ a.waypoints = <<>>
               THEN "takeoff" ELSE "none"
     ELSE "none"

\* the branch of update_auto_ground an aircraft takes: "gate" (TaxiArr),
\* "depart" (Parked), "takeoff" (TaxiDep), "panic" or "none"
GroundBranch(ac, w, avail, i) ==
  LET a == ac[i]
      apIdx == AirportIdx(w, a.airspace)
      k == CHOOSE k \in apIdx : \A j \in apIdx : k <= j
  IN IF ~(a.airspace # "none" /\ airport_status(w, a.airspace).automate_ground)
     THEN "none"
     ELSE IF a.segment = "TaxiArr" /\ a.speed <= MAX_TAXI_SPEED
          THEN IF /\ IsTaxiing(a)
                  /\ \A nd \in Range(a.waypoints) \cup {a.cur} : nd.kind # "Gate"
                  /\ apIdx # {}
                  /\ \E g \in 1..Len(avail[k]) : avail[k][g]
               THEN "gate" ELSE "none"
     ELSE IF a.segment = "Parked"
          THEN IF /\ IsParked(a) /\ apIdx # {}
                  /\ HasAirport(w, a.dep) /\ HasAirport(w, a.arr)
               THEN IF WorldAirport(w, a.dep).runways = <<>> THEN "panic"
                    ELSE "depart"
               ELSE "none"
     ELSE IF a.segment = "TaxiDep"
          THEN IF /\ IsTaxiing(a)
                  /\ a.cur.kind = "Runway"
                  /\ a.waypoints = <<>>
                  /\ ~\E j \in 1..Len(ac) :
                        ac[j].airspace = a.airspace /\ ac[j].segment = "Takeoff"
               THEN "takeoff" ELSE "none"
     ELSE "none"

\* Taxi([gate]) to the last available gate instead of the first
GateTaxiLastGate(a, ap, availOfAp) ==
  LET g == CHOOSE g \in 1..Len(availOfAp) :
             availOfAp[g] /\ \A h \in 1..Len(availOfAp) : availOfAp[h] => g >= h
  IN <<EvNodes(a.id, "Taxi", <<Node(ap.gates[g], "Gate", "Park", 0)>>)>>

\* Taxi([gate]) to the first available gate, in terminal then gate order
GateTaxi(a, ap, availOfAp) ==
  LET g == CHOOSE g \in 1..Len(availOfAp) :
             availOfAp[g] /\ \A h \in 1..Len(availOfAp) : availOfAp[h] => g <= h
  IN <<EvNodes(a.id, "Taxi", <<Node(ap.gates[g], "Gate", "Park", 0)>>)>>

\* Taxi([neighbour, runway]) for a parked departure: the departure airport's
\* runway closest in heading to the course, entered over the graph edge of the
\* runway node nearest the runway start; nothing when the runway is not a node
\* of the graph or has no edge
DepartureTaxi(a, ap, w) ==
  LET departure == WorldAirport(w, a.dep)
      arrival == WorldAirport(w, a.arr)
      departure_angle == angle_between_points(departure.cx, arrival.cx)
      n == Len(departure.runways)
      diff(r) == Abs(delta_angle(departure.runways[r].heading, departure_angle))
      best == {r \in 1..n : \A q \in 1..n : diff(r) <= diff(q)}
      runway == departure.runways[CHOOSE r \in best : \A q \in best : r <= q]
      m == Len(ap.edges)
      touching == SeqFilterIdx(m, [e \in 1..m |-> ap.edges[e].runway = runway.id], 1)
      near == {e \in Range(touching) :
                 \A e2 \in Range(touching) : ap.edges[e].d <= ap.edges[e2].d}
      closest == ap.edges[CHOOSE e \in near : \A e2 \in near : e <= e2]
  IN IF [name |-> runway.id, kind |-> "Runway"] \in ap.taxi_nodes /\ touching # <<>>
     THEN <<EvNodes(a.id, "Taxi",
                    <<Node(closest.other, "Taxiway", "GoTo", 0),
                      Node(runway.id, "Runway", "GoTo", 0)>>)>>
     ELSE <<>>

RECURSIVE AutoGroundLoop(_, _, _, _, _)
\* the loop of update_auto_ground from aircraft i on
AutoGroundLoop(ac, w, avail, i, out) ==
  IF i > Len(ac) THEN [events |-> out, panic |-> FALSE]
  ELSE LET a == ac[i]
           branch == GroundBranch(ac, w, avail, i)
           apIdx == AirportIdx(w, a.airspace)
           k == CHOOSE k \in apIdx : \A j \in apIdx : k <= j
       IN CASE branch = "gate" ->
                 [events |-> out \o GateTaxi(a, w.airports[k], avail[k]),
                  panic |-> FALSE]
            [] branch = "takeoff" ->
                 [events |-> out \o <<EvS(a.id, "Takeoff", a.cur.name),
                                      EvS(a.id, "NamedFrequency", "departure")>>,
                  panic |-> FALSE]
            [] branch = "panic" -> [events |-> out, panic |-> TRUE]
            [] branch = "depart" ->
                 AutoGroundLoop(ac, w, avail, i + 1,
                                out \o DepartureTaxi(a, w.airports[k], w))
            [] OTHER -> AutoGroundLoop(ac, w, avail, i + 1, out)

\* Engine::update_auto_ground: the events it pushes, and whether it panicked
update_auto_ground(ac, w, avail) == AutoGroundLoop(ac, w, avail, 1, <<>>)

-----------------------------------------------------------------------------
(* Per-aircraft effects (engine/src/entities/aircraft/effects: not part of *)
(* the files above; modelled after sections 4.1 and 4.3 of the            *)
(* specification).  `progress` is the set of aircraft whose motion reaches *)
(* its next milestone in this tick: the next taxi node, the next landing   *)
(* phase, the next flight-plan waypoint, the end of the climb-out.         *)

update_taxiing(a, progress) ==
  IF ~IsTaxiing(a) THEN Res(a, <<>>)
  ELSE LET held == [a EXCEPT !.tspeed = IF a.sub \in {"Holding", "Stopped"}
                                        THEN 0 ELSE a.tspeed]
           n == Len(a.waypoints)
           wp == a.waypoints[n]
           moved == [held EXCEPT !.cur = wp, !.waypoints = SubSeq(a.waypoints, 1, n - 1)]
       IN IF n = 0 \/ a.id \notin progress \/ held.tspeed = 0 \/ a.speed = 0
          THEN Res(held, <<>>)
          ELSE CASE wp.behavior = "Park" ->
                      Res(SetParked([moved EXCEPT !.tspeed = 0, !.speed = 0], wp), <<>>)
                 [] wp.behavior = "Takeoff" /\ wp.kind = "Runway" ->
                      Res(moved, <<EvS(a.id, "Takeoff", wp.name)>>)
                 [] wp.behavior \in {"LineUp", "HoldShort"} ->
                      Res([moved EXCEPT !.tspeed = 0], <<>>)
                 [] OTHER -> Res(moved, <<>>)

update_landing(a, progress) ==
  IF ~IsLanding(a) THEN Res(a, <<>>)
  ELSE LET b == [a EXCEPT !.thead = a.runway.heading, !.talt = 0]
       IN IF a.id \notin progress THEN Res(b, <<>>)
          ELSE CASE a.sub = "Approach" -> Res([b EXCEPT !.sub = "Established"], <<>>)
                 [] a.sub = "Established" ->
                      Res([b EXCEPT !.sub = "Touchdown"], <<Ev(a.id, "Touchdown")>>)
                 [] OTHER -> Res(b, <<>>)

update_flying(a, progress) ==
  IF IsFlying(a) /\ a.follow /\ ~at_end(a)
  THEN LET b == [a EXCEPT !.thead = angle_between_points(a.x, waypoint(a).x)]
       IN IF a.id \in progress THEN set_index(b, a.fp_index + 1) ELSE b
  ELSE a

\* one tick of climb or descent towards the target, in feet
ClimbStep(a) == 1000

update_from_targets(a) ==
  IF IsParked(a) THEN a
  ELSE [a EXCEPT !.speed = a.tspeed,
                 !.heading = IF IsTaxiing(a) THEN a.heading ELSE a.thead,
                 !.altitude = IF a.altitude < a.talt
                              THEN Min(a.altitude + ClimbStep(a), a.talt)
                              ELSE Max(a.altitude - ClimbStep(a), a.talt)]

\* the displacement of one tick is below the position grid
update_position(a) == a

\* World::detect_airspace: the first airport whose airspace holds the position
detect_airspace(w, x) ==
  LET inside == {i \in 1..Len(w.airports) :
                   Abs(x - w.airports[i].cx) <= w.airports[i].radius}
  IN IF inside = {} THEN "none"
     ELSE w.airports[CHOOSE i \in inside : \A j \in inside : i <= j].id

update_airspace(a, w) == [a EXCEPT !.airspace = detect_airspace(w, a.x)]

\* the segment that follows from the movement state
NextSegment(a, progress) ==
  CASE IsParked(a) ->
         IF a.segment \in {"Dormant", "Boarding", "Parked"} THEN a.segment
         ELSE "Parked"
    [] IsTaxiing(a) ->
         IF a.segment \in {"Dormant", "Boarding", "Parked", "TaxiDep", "Takeoff"}
         THEN "TaxiDep" ELSE "TaxiArr"
    [] IsLanding(a) -> "Landing"
    [] OTHER ->
         IF a.segment \in {"Dormant", "Boarding", "Parked", "TaxiDep", "TaxiArr"}
         THEN "Takeoff"
         ELSE IF a.segment = "Takeoff"
              THEN (IF a.id \in progress THEN "Departure" ELSE "Takeoff")
         ELSE IF a.segment = "Landing" THEN "Approach"
         ELSE IF a.segment = "Arrival" /\ a.airspace = a.arr THEN "Approach"
         ELSE a.segment

update_segment(a, progress) ==
  LET next == NextSegment(a, progress)
  IN IF next # a.segment
     THEN Res([a EXCEPT !.segment = next], <<EvSegment(a.id, a.segment, next)>>)
     ELSE Res(a, <<>>)

-----------------------------------------------------------------------------
(* Engine::tick                                                            *)

RECURSIVE ApplyEvents(_, _, _, _, _, _, _)
\* an entry of the log of a tick: the step taken for the aircraft `pre` (the
\* event e applied to it, or its update), the aircraft `post` it left and the
\* events it pushed
LogEntry(step, k, e, pre, r) ==
  [id |-> pre.id, step |-> step, idx |-> k, kind |-> e.kind, was |-> pre.kind,
   ev |-> e, pre |-> pre, post |-> r.a, pushed |-> r.out]

\* the inner loop of tick: every inbound aircraft event whose id is the
\* aircraft's, in the order of the inbound buffer: [a, out, log]
ApplyEvents(a, inbound, k, w, rnd, out, lg) ==
  IF k > Len(inbound) THEN [a |-> a, out |-> out, log |-> lg]
  ELSE IF IsAircraftEvent(inbound[k]) /\ inbound[k].id = a.id
       THEN Let(handle_aircraft_event(a, inbound[k], w, rnd), LAMBDA r :
              ApplyEvents(r.a, inbound, k + 1, w, rnd, out \o r.out,
                          Append(lg, LogEntry("event", k, inbound[k], a, r))))
       ELSE ApplyEvents(a, inbound, k + 1, w, rnd, out, lg)

\* the update_* chain of tick for one aircraft: [a, out]
\* an update chain that leaves the segment as the events set it
UpdateAircraftKeepsSegment(a, w, progress) ==
  Let(update_taxiing(a, progress), LAMBDA t :
  Let(update_landing(t.a, progress), LAMBDA l :
  Let(update_flying(l.a, progress), LAMBDA f :
    Res(update_airspace(update_position(update_from_targets(f)), w),
        t.out \o l.out))))

UpdateAircraft(a, w, progress) ==
  Let(update_taxiing(a, progress), LAMBDA t :
  Let(update_landing(t.a, progress), LAMBDA l :
  Let(update_flying(l.a, progress), LAMBDA f :
  Let(update_airspace(update_position(update_from_targets(f)), w), LAMBDA p :
  Let(update_segment(p, progress), LAMBDA s :
    Res(s.a, t.out \o l.out \o s.out))))))

\* a loop body that runs the update_* chain before the inbound events
AircraftStepUpdateFirst(a, inbound, w, rnd, progress) ==
  Let(UpdateAircraft(a, w, progress), LAMBDA u :
  Let(ApplyEvents(u.a, inbound, 1, w, rnd, <<>>,
                  <<LogEntry("update", 0, Ev(a.id, ""), a, u)>>), LAMBDA e :
    [a |-> e.a, out |-> u.out \o e.out, log |-> e.log]))

\* the body of the loop over game.aircraft for one aircraft: [a, out, log]
AircraftStep(a, inbound, w, rnd, progress) ==
  Let(ApplyEvents(a, inbound, 1, w, rnd, <<>>, <<>>), LAMBDA e :
  Let(UpdateAircraft(e.a, w, progress), LAMBDA u :
    [a |-> u.a, out |-> e.out \o u.out,
     log |-> Append(e.log, LogEntry("update", 0, Ev(a.id, ""), e.a, u))]))

\* a configuration test that enables the collision passes always
run_collisions_always(cfg) == cfg \in {"Minimal", "Full"}

run_collisions(cfg) == cfg = "Full"

\* a loop that takes the aircraft a Delete event was applied to out of the game
TickLoopDropsDeleted(ac, inbound, w, cfg, rnd, progress) ==
  Let(IF run_collisions(cfg) THEN handle_tcas(ac)
      ELSE [aircraft |-> ac, events |-> <<>>], LAMBDA t :
  Let(Tuple([i \in 1..Len(ac) |->
               AircraftStep(t.aircraft[i], inbound, w, rnd, progress)],
            Len(ac)), LAMBDA loop :
  Let(SeqFilterIdx(Len(ac),
        [i \in 1..Len(ac) |->
           \A k \in 1..Len(loop[i].log) : loop[i].log[k].kind # "Delete"], 1),
      LAMBDA kept :
  Let(Tuple([i \in 1..Len(kept) |-> loop[kept[i]].a], Len(kept)), LAMBDA ac1 :
    [aircraft |-> ac1,
     tcas |-> t.events,
     loop |-> Flatten([i \in 1..Len(ac) |-> loop[i].out], 1),
     log |-> Flatten([i \in 1..Len(ac) |-> loop[i].log], 1),
     available |-> compute_available_gates(ac1, w)]))))

\* tick up to compute_available_gates
TickLoop(ac, inbound, w, cfg, rnd, progress) ==
  Let(IF run_collisions(cfg) THEN handle_tcas(ac)
      ELSE [aircraft |-> ac, events |-> <<>>], LAMBDA t :
  Let(Tuple([i \in 1..Len(ac) |->
               AircraftStep(t.aircraft[i], inbound, w, rnd, progress)],
            Len(ac)), LAMBDA loop :
  Let(Tuple([i \in 1..Len(ac) |-> loop[i].a], Len(ac)), LAMBDA ac1 :
    [aircraft |-> ac1,
     tcas |-> t.events,
     loop |-> Flatten([i \in 1..Len(ac) |-> loop[i].out], 1),
     log |-> Flatten([i \in 1..Len(ac) |-> loop[i].log], 1),
     available |-> compute_available_gates(ac1, w)])))

\* the events of taxi_collisions that tick keeps: the call is a statement,
\* its return value is dropped
KeptTaxiEvents(evs) == <<>>

\* tick from update_auto_approach on
TickAuto(pre, w, cfg, perm) ==
  Let(update_auto_approach(pre.aircraft, w, perm), LAMBDA ap :
  Let(IF ap.panic THEN [events |-> <<>>, panic |-> TRUE]
      ELSE update_auto_ground(ap.aircraft, w, pre.available), LAMBDA gr :
  Let(IF run_collisions(cfg) THEN taxi_collisions(ap.aircraft, w)
      ELSE [aircraft |-> ap.aircraft, events |-> <<>>], LAMBDA tx :
    [aircraft |-> tx.aircraft,
     events |-> pre.tcas \o pre.loop \o ap.events \o gr.events
                \o KeptTaxiEvents(tx.events),
     panic |-> gr.panic,
     emitted |-> [tcas |-> pre.tcas, loop |-> pre.loop, approach |-> ap.events,
                  ground |-> gr.events, taxi |-> tx.events]])))

NoEmitted ==
  [tcas |-> <<>>, loop |-> <<>>, approach |-> <<>>, ground |-> <<>>, taxi |-> <<>>]

\* the values a draw of Engine.rng can select among the other airports
RngDraws(w) == 1..Max(1, Len(w.airports) - 1)

\* the aircraft that can reach a milestone of their motion within a tick
Moving(ac) ==
  {ac[i].id : i \in {j \in 1..Len(ac) :
                       \/ IsTaxiing(ac[j]) /\ ac[j].waypoints # <<>>
                       \/ IsLanding(ac[j])
                       \/ IsFlying(ac[j]) /\ ac[j].follow /\ ~at_end(ac[j])
                       \/ IsFlying(ac[j]) /\ ac[j].segment = "Takeoff"}}

\* a paused tick that still counts the tick and clears the inbound buffer
PausedTickSwapsBuffer ==
  /\ returned' = <<>>
  /\ events' = <<>>
  /\ tick_counter' = tick_counter + 1
  /\ UNCHANGED <<aircraft, available, panicked, log, emitted>>

\* tick on a paused engine: an empty event list and no state change
PausedTick ==
  /\ returned' = <<>>
  /\ UNCHANGED <<aircraft, events, available, tick_counter, panicked, log, emitted>>

\* Engine::tick with the Pause latch of the command loop in front of it
Tick ==
  /\ ~panicked
  /\ tick_counter < MaxTicks
  /\ IF paused
     THEN PausedTick
     ELSE \E rnd \in RngDraws(world), progress \in SUBSET Moving(aircraft) :
            \E pre \in {TickLoop(aircraft, events, world, config, rnd, progress)} :
            \E perm \in Permutations(1..NumGroups(pre.aircraft, world)) :
            \E r \in {TickAuto(pre, world, config, perm)} :
              IF r.panic
              THEN /\ panicked' = TRUE
                   /\ UNCHANGED <<aircraft, events, available, tick_counter,
                                  returned, log, emitted>>
              ELSE /\ aircraft' = r.aircraft
                   /\ events' = r.events
                   /\ returned' = r.events
                   /\ available' = pre.available
                   /\ tick_counter' = tick_counter + 1
                   /\ log' = pre.log
                   /\ emitted' = r.emitted
                   /\ UNCHANGED panicked
  /\ UNCHANGED <<world, config, paused, ui_events>>

\* a command handed to the engine between two ticks: Engine.events.push
Inject(e) ==
  /\ ~panicked
  /\ Len(events) - Len(returned) < MaxInbound
  /\ events' = Append(events, e)
  /\ UNCHANGED <<aircraft, world, available, tick_counter, config, paused,
                 ui_events, panicked, returned, log, emitted>>

\* UICommand::Pause: toggles the latch and echoes UIEvent::Pause
Pause ==
  /\ ~panicked
  /\ ui_events < MaxPauses
  /\ paused' = ~paused
  /\ ui_events' = ui_events + 1
  /\ UNCHANGED <<aircraft, events, world, available, tick_counter, config,
                 panicked, returned, log, emitted>>

-----------------------------------------------------------------------------
(* Worlds and aircraft of the checked configurations                       *)

\* Aircraft::default: a flying aircraft without plan, position x
NewAircraft(id, x) ==
  [id |-> id, x |-> x, altitude |-> 0, heading |-> 90, speed |-> 0,
   tspeed |-> 0, talt |-> 0, thead |-> 90, airspace |-> "none",
   frequency |-> 0, kind |-> "Flying", cur |-> NoNode, waypoints |-> <<>>,
   sub |-> "None", runway |-> NoRunway, segment |-> "Cruise", tcas |-> "Idle",
   dep |-> "KA", arr |-> "KB", fp_alt |-> 7000, fp_speed |-> 250,
   fp_wps |-> <<>>, fp_index |-> 0, course_offset |-> 0, follow |-> TRUE,
   turn_bias |-> 0]

Runway27 == [id |-> "27", heading |-> 270, x |-> 0]

Airport(id, cx, ground, air) ==
  [id |-> id, cx |-> cx, radius |-> 90000, runways |-> <<Runway27>>,
   gates |-> <<"G1", "G2">>,
   taxi_nodes |-> {[name |-> "27", kind |-> "Runway"],
                   [name |-> "A", kind |-> "Taxiway"],
                   [name |-> "G1", kind |-> "Gate"],
                   [name |-> "G2", kind |-> "Gate"]},
   edges |-> <<[runway |-> "27", other |-> "A", d |-> 0]>>,
   automate_air |-> air, automate_ground |-> ground,
   divert_arrivals |-> FALSE, freq_base |-> IF id = "KA" THEN 100 ELSE 200]

KBx == 400000

GroundWorld ==
  [airports |-> <<Airport("KA", 0, TRUE, FALSE), Airport("KB", KBx, FALSE, FALSE)>>,
   waypoints |-> <<>>]

\* a departure standing on the runway with nothing left to taxi
OnRunway(id, x) ==
  [NewAircraft(id, x) EXCEPT
     !.kind = "Taxiing", !.cur = Node("27", "Runway", "GoTo", 0), !.sub = "Armed",
     !.segment = "TaxiDep", !.airspace = "KA", !.heading = 270, !.thead = 270]

\* an arrival established on final for runway 27
OnFinal(id, x) ==
  [NewAircraft(id, x) EXCEPT
     !.kind = "Landing", !.runway = Runway27, !.sub = "Established",
     !.segment = "Landing", !.airspace = "KA", !.heading = 270, !.thead = 270,
     !.altitude = 1000, !.speed = 170, !.tspeed = 170, !.dep = "KB", !.arr = "KA"]

\* an aircraft parked at a gate of the airport its position x lies in
AtGate(id, x, gate, segment, w) ==
  [NewAircraft(id, x) EXCEPT
     !.kind = "Parked", !.cur = Node(gate, "Gate", "Park", 0),
     !.segment = segment, !.airspace = detect_airspace(w, x),
     !.dep = detect_airspace(w, x),
     !.arr = IF detect_airspace(w, x) = "KA" THEN "KB" ELSE "KA"]

\* an arrival that has just left the runway centreline: taxiing, no gate yet
Vacating(id, x) ==
  [OnRunway(id, x) EXCEPT !.segment = "TaxiArr", !.dep = "KB", !.arr = "KA"]

\* an arrival taxiing to gate G1, one node away from it
TaxiingIn(id, x) ==
  [Vacating(id, x) EXCEPT !.cur = Node("A", "Taxiway", "GoTo", 0),
                          !.waypoints = <<Node("G1", "Gate", "Park", 0)>>,
                          !.speed = MAX_TAXI_SPEED, !.tspeed = MAX_TAXI_SPEED]

GroundFleets ==
  {<<OnRunway(1, 100), OnRunway(2, 0)>>,
   <<OnFinal(1, 3000), AtGate(2, 900, "G1", "Parked", GroundWorld)>>,
   <<TaxiingIn(1, 900), OnFinal(2, 1000),
     AtGate(3, KBx, "G2", "Boarding", GroundWorld)>>,
   <<Vacating(1, 900), OnRunway(2, 100), OnRunway(3, 0)>>}

GroundCommands ==
  {EvNodes(1, "Taxi", <<Node("G2", "Gate", "GoTo", 0)>>),
   EvB(1, "TaxiHold", TRUE),
   EvB(2, "TaxiHold", FALSE)}

InitWith(fleets, w, cfgs) ==
  /\ aircraft \in fleets
  /\ world = w
  /\ config \in cfgs
  /\ events = <<>>
  /\ available = compute_available_gates(aircraft, w)
  /\ tick_counter = 0
  /\ paused = FALSE
  /\ ui_events = 0
  /\ panicked = FALSE
  /\ returned = <<>>
  /\ log = <<>>
  /\ emitted = NoEmitted

\* the ground configuration: airport KA with automated ground control
Init == InitWith(GroundFleets, GroundWorld, {"Minimal", "Full"})

Command == \E e \in GroundCommands : Inject(e)

Next == Tick \/ Command

Spec == Init /\ [][Next]_vars

\* the command loop with the Pause latch, over one departure fleet
InitPause == InitWith({<<OnRunway(1, 100), OnRunway(2, 0)>>}, GroundWorld, {"Full"})

NextPause == Tick \/ Command \/ Pause

SpecPause == InitPause /\ [][NextPause]_vars

\* the airborne configuration: en-route traffic outside every airspace
Cruising(id, x, altitude, heading) ==
  [NewAircraft(id, x) EXCEPT !.altitude = altitude, !.talt = altitude,
                             !.heading = heading, !.thead = heading,
                             !.speed = 250, !.tspeed = 250]

\* en-route traffic that has been cleared to another level
Climbing(id, x, altitude, heading, target) ==
  [Cruising(id, x, altitude, heading) EXCEPT !.talt = target]

TcasFleets ==
  {<<Cruising(1, 100000, 5000, 90), Climbing(2, 110000, 5500, 270, 6500)>>,
   <<Cruising(1, 100000, 5000, 90), Climbing(2, 110000, 5500, 270, 6500),
     Cruising(3, 130000, 4000, 270)>>,
   \* after a conflict: one aircraft has descended below 2000 ft, the other
   \* is still in its resolution, a third one is landing with its advisory
   <<[Cruising(1, 100000, 1800, 90) EXCEPT !.tcas = "Warning"],
     [Cruising(2, 110000, 2500, 270) EXCEPT !.tcas = "Climb"],
     [OnFinal(3, 3000) EXCEPT !.tcas = "Hold"]>>}

TcasCommands == {EvN(1, "Altitude", 4000), EvN(2, "Altitude", 5500)}

InitTcas == InitWith(TcasFleets, GroundWorld, {"Full"})

CommandTcas == \E e \in TcasCommands : Inject(e)

NextTcas == Tick \/ CommandTcas

SpecTcas == InitTcas /\ [][NextTcas]_vars

\* both engine configurations over traffic in conflict: the airborne fleets,
\* and two departures one behind the other on the runway
InitCollisions ==
  InitWith(TcasFleets \cup {<<OnRunway(1, 100), OnRunway(2, 0)>>}, GroundWorld,
           {"Minimal", "Full"})

SpecCollisions == InitCollisions /\ [][NextTcas]_vars

\* the approach configuration: airport KA with automated approach control
AirWorld ==
  [airports |-> <<Airport("KA", 0, FALSE, TRUE), Airport("KB", KBx, FALSE, FALSE)>>,
   waypoints |-> <<>>]

FinalFix == Runway27.x + 10 * NAUTICALMILES_TO_FEET

\* an arrival in the airspace of KA that has flown its plan to the STAR
Arriving(id, x) ==
  [Cruising(id, x, 6000, 270) EXCEPT
     !.segment = "Approach", !.airspace = "KA", !.dep = "KB", !.arr = "KA",
     !.fp_wps = <<Node("STAR", "VOR", "GoTo", 30 * NAUTICALMILES_TO_FEET)>>,
     !.fp_index = 1]

\* an arrival on the approach pattern, the final fix being its active waypoint
OnPattern(id, x) ==
  [Arriving(id, x) EXCEPT
     !.altitude = 4000, !.talt = 4000,
     !.fp_wps = <<Node("STAR", "VOR", "GoTo", 30 * NAUTICALMILES_TO_FEET),
                  NodeXY("BS", "VOR", "GoTo", FinalFix, 5 * NAUTICALMILES_TO_FEET),
                  NodeXY("27", "VOR", "GoTo", FinalFix, 0)>>,
     !.fp_index = 2]

ApproachFleets ==
  LET \* an arrival on a heading, nm miles before the final fix, at 200 kt
      Inbound(id, nm) ==
        [OnPattern(id, FinalFix - nm * NAUTICALMILES_TO_FEET) EXCEPT
           !.follow = FALSE, !.turn_bias = 1, !.speed = 200, !.tspeed = 200]
  IN {<<Arriving(1, 80000),
        [OnFinal(2, 3000) EXCEPT !.turn_bias = 1, !.speed = 180, !.tspeed = 180]>>,
      <<OnPattern(1, FinalFix), OnFinal(2, 3000)>>,
      <<OnPattern(1, FinalFix), [OnFinal(2, 45000) EXCEPT !.turn_bias = -1]>>,
      <<[Cruising(1, 150000, 5000, 90) EXCEPT !.tspeed = 200],
        [Cruising(2, 250000, 6000, 270) EXCEPT !.tspeed = 200,
                                               !.dep = "KB", !.arr = "KA"]>>,
      <<Inbound(1, 6), Inbound(2, 10), Inbound(3, 14)>>,
      <<Inbound(1, 8), Inbound(2, 2)>>,
      <<OnPattern(1, FinalFix), OnPattern(2, FinalFix + 1000)>>}

ApproachCommands ==
  {Ev(2, "GoAround"), EvN(2, "Heading", 180), EvN(2, "Speed", 200)}

InitApproach == InitWith(ApproachFleets, AirWorld, {"Minimal"})

CommandApproach == \E e \in ApproachCommands : Inject(e)

NextApproach == Tick \/ CommandApproach

SpecApproach == InitApproach /\ [][NextApproach]_vars

\* the controller's configuration: no automation at any airport, one aircraft
\* in each state of AircraftState, and the commands a controller can send it
ManualWorld ==
  [airports |-> <<Airport("KA", 0, FALSE, FALSE), Airport("KB", KBx, FALSE, FALSE)>>,
   waypoints |-> <<>>]

EventFleets ==
  {<<AtGate(1, 900, "G1", "Parked", ManualWorld)>>,
   <<OnRunway(2, 0)>>,
   <<[OnRunway(2, 0) EXCEPT !.sub = "Holding"]>>,
   <<[OnRunway(2, 0) EXCEPT !.sub = "Stopped"]>>,
   <<[OnRunway(2, 0) EXCEPT !.sub = "Override"]>>,
   <<[OnPattern(3, FinalFix) EXCEPT !.follow = FALSE]>>,
   <<OnFinal(4, 3000)>>,
   <<[OnPattern(7, FinalFix) EXCEPT !.follow = FALSE, !.fp_index = 0]>>,
   <<[OnRunway(8, 900) EXCEPT
        !.cur = Node("A", "Taxiway", "GoTo", 0),
        !.waypoints = <<Node("27", "Runway", "HoldShort", 0)>>]>>,
   <<[OnPattern(9, FinalFix) EXCEPT !.course_offset = 20]>>}

EventCommands ==
  {EvSegment(1, "Parked", "Approach"), EvSegment(1, "Arrival", "Approach"),
   EvSegment(1, "Parked", "TaxiDep"),
   EvS(1, "Takeoff", "27"), EvS(1, "Land", "27"), Ev(1, "GoAround"),
   Ev(1, "Touchdown"), EvB(1, "ResumeOwnNavigation", FALSE),
   EvS(2, "Land", "27"), Ev(2, "GoAround"), Ev(2, "Touchdown"),
   EvB(2, "ResumeOwnNavigation", FALSE),
   EvS(3, "Takeoff", "27"), Ev(3, "GoAround"), Ev(3, "Touchdown"),
   EvNodes(3, "Taxi", <<Node("G2", "Gate", "GoTo", 0)>>),
   EvS(4, "Takeoff", "27"), EvB(4, "ResumeOwnNavigation", FALSE),
   Ev(4, "GoAround"),
   EvNodes(4, "Taxi", <<Node("G2", "Gate", "GoTo", 0)>>),
   EvNodes(1, "Taxi", <<Node("A", "Taxiway", "GoTo", 0),
                        Node("B", "Taxiway", "GoTo", 0)>>),
   EvNodes(2, "Taxi", <<Node("A", "Taxiway", "GoTo", 0),
                        Node("G3", "Gate", "GoTo", 0)>>),
   EvNodes(2, "Taxi", <<Node("A", "Taxiway", "GoTo", 0),
                        Node("G2", "Gate", "GoTo", 0)>>),
   EvNodes(1, "Taxi", <<Node("G1", "Gate", "GoTo", 0),
                        Node("A", "Taxiway", "GoTo", 0),
                        Node("27", "Runway", "HoldShort", 0)>>),
   EvNodes(2, "Taxi", <<Node("27", "Runway", "GoTo", 0)>>),
   Ev(3, "Delete"), Ev(2, "TaxiContinue"), Ev(4, "TaxiContinue"),
   EvS(8, "LineUp", "27"), EvS(8, "LineUp", "09"), EvS(2, "LineUp", "27"),
   EvS(4, "LineUp", "27"),
   EvN(1, "Heading", 180), EvN(2, "Heading", 180), EvN(4, "Heading", 180),
   EvN(9, "Heading", 180),
   EvS(3, "Land", "27"), EvS(3, "Land", "XX"), EvS(4, "Land", "27"),
   EvS(4, "Land", "XX"),
   EvS(2, "Takeoff", "27"), EvS(2, "Takeoff", "09"), EvS(8, "Takeoff", "27"),
   EvS(8, "Takeoff", "09"),
   EvS(3, "Direct", "STAR"), EvS(3, "Direct", "XX"), EvS(7, "Direct", "BS"),
   EvNodes(3, "AmendAndFollow", <<Node("DW", "VOR", "GoTo", 0)>>),
   EvB(3, "ResumeOwnNavigation", FALSE),
   EvN(5, "Speed", 200), EvN(6, "Heading", 180), EvN(6, "Speed", 200)}

\* an arrival inside the airspace of KA (planned to KA, or passing through on
\* its way to KB) while KA sends its arrivals away; KC is a third airport
\* beyond KB and W1 an en-route waypoint half way between KA and KB
InitDivert ==
  InitWith({<<[Arriving(1, 60000) EXCEPT !.segment = "Arrival"]>>,
            <<[Arriving(1, 60000) EXCEPT !.segment = "Arrival",
                                         !.dep = "KA", !.arr = "KB"]>>},
           [ManualWorld EXCEPT
              !.airports = @ \o <<Airport("KC", 2 * KBx, FALSE, FALSE)>>,
              !.airports[1].divert_arrivals = TRUE,
              !.waypoints = <<[name |-> "W1", x |-> KBx \div 2]>>],
           {"Full"})

\* the fleets of EventFleets at airports that take their arrivals, or the
\* arrivals at an airport that sends them away
InitEvents ==
  \/ InitWith(EventFleets, ManualWorld, {"Minimal", "Full"})
  \/ InitDivert

\* a command to an aircraft of the fleet, sent before the tick MaxCommandTicks
CommandEvents ==
  \E e \in EventCommands :
    e.id \in Ids(aircraft) /\ tick_counter < MaxCommandTicks /\ Inject(e)

NextEvents == Tick \/ CommandEvents

SpecEvents == InitEvents /\ [][NextEvents]_vars

\* the arrivals at an airport that sends them away, the controller sending
\* commands between any two ticks
NextDivert ==
  Tick \/ \E e \in {EvS(1, "Land", "27"), EvN(1, "Heading", 180),
                     EvSegment(1, "Arrival", "Approach")} : Inject(e)

SpecDivert == InitDivert /\ [][NextDivert]_vars

\* a tick whose TCAS, update and automation passes emit nothing: the loop
\* over the aircraft runs, and the next buffer holds what the handlers of the
\* inbound events pushed, in the order of the loop
CascadeTick ==
  /\ ~panicked
  /\ tick_counter < MaxTicks
  /\ \E rnd \in RngDraws(world), progress \in SUBSET Moving(aircraft) :
       \E pre \in {TickLoop(aircraft, events, world, config, rnd, progress)} :
       \E out \in {Flatten([k \in 1..Len(pre.log) |->
                              IF pre.log[k].step = "event"
                              THEN pre.log[k].pushed ELSE <<>>], 1)} :
         /\ aircraft' = pre.aircraft
         /\ events' = out
         /\ returned' = out
         /\ available' = pre.available
         /\ tick_counter' = tick_counter + 1
         /\ log' = pre.log
         /\ emitted' = NoEmitted
  /\ UNCHANGED <<world, config, paused, ui_events, panicked>>

\* the inbound events, all of them sent before the first tick
CascadeInbound ==
  /\ tick_counter = 0
  /\ \E e \in EventCommands
              \cup {Ev(1, "Ident"), Ev(2, "Ident"), Ev(3, "Ident"), Ev(4, "Ident"),
                    Ev(3, "CalloutTARA"), Ev(1, "Delete"),
                    EvSegment(1, "Boarding", "Parked"),
                    EvSegment(2, "TaxiArr", "Parked")} :
       e.id \in Ids(aircraft) /\ Inject(e)

\* the tick counter of an engine that can tick moves on
TickDue == ~panicked /\ tick_counter < MaxTicks /\ tick_counter' = tick_counter + 1

\* the engine keeps ticking (the runner calls tick at its tick rate): a step
\* that moves the tick counter is a tick
SpecCascade ==
  InitEvents /\ [][CascadeTick \/ CascadeInbound]_vars /\ WF_tick_counter(TickDue)

\* One departure on the runway (aircraft 3): alone, behind one arrival and
\* behind two, at an airport whose gates the path-finder reaches, and behind
\* one arrival at an airport whose gates are not connected to the taxi graph,
\* so that every Taxi to a gate fails in path_to.  The controller's commands
\* go to the arrivals only, and ticks keep running (until the bound).
SpecDepartures ==
  /\ \/ InitWith({<<OnRunway(3, 100)>>,
                  <<Vacating(1, 900), OnRunway(3, 100)>>,
                  <<Vacating(1, 900), Vacating(2, 800), OnRunway(3, 100)>>},
                 GroundWorld, {"Minimal", "Full"})
     \/ InitWith({<<Vacating(1, 900), OnRunway(3, 100)>>},
                 [GroundWorld EXCEPT !.airports[1].taxi_nodes =
                    {[name |-> "27", kind |-> "Runway"],
                     [name |-> "A", kind |-> "Taxiway"]}],
                 {"Minimal", "Full"})
  /\ [][Next]_vars
  /\ WF_tick_counter(TickDue)

\* worlds whose assets are incomplete.  Either airport KA, with automated
\* approach and ground control, has no runway: an arrival with a STAR, a
\* parked departure, and an arrival without STAR ahead of a landing aircraft.
\* Or the world has no airport at all: en-route traffic, and aircraft on the
\* ground of an airport the world does not know.
InitAssets ==
  \/ InitWith({<<Arriving(5, 80000)>>,
               <<AtGate(5, 900, "G1", "Parked", ManualWorld)>>,
               <<[Arriving(5, 80000) EXCEPT !.fp_wps = <<>>, !.fp_index = 0],
                 OnFinal(6, 3000)>>},
              [ManualWorld EXCEPT !.airports[1].runways = <<>>,
                                  !.airports[1].automate_air = TRUE,
                                  !.airports[1].automate_ground = TRUE],
              {"Minimal", "Full"})
  \/ InitWith({<<Cruising(5, 100000, 5000, 90),
                 [Cruising(6, 110000, 6500, 90) EXCEPT !.turn_bias = 1]>>,
               <<[OnRunway(5, 0) EXCEPT !.airspace = "none"],
                 [AtGate(6, 900, "G1", "Parked", ManualWorld)
                    EXCEPT !.airspace = "none"]>>},
              [ManualWorld EXCEPT !.airports = <<>>],
              {"Minimal", "Full"})

SpecAssets == InitAssets /\ [][NextEvents]_vars

\* ground traffic in conflict geometry, the engine running its collision
\* passes: one aircraft 100 ft behind another, or two at one place.  At an
\* airport with automated ground control (departures, arrivals that were
\* stopped or continue on the controller's word, two parked aircraft, a pair
\* on the edge of the airspace), at an airport without it, and in a world
\* without airports, where no aircraft is in an airspace.  Last, two airports
\* with automated ground control, the gates of KA full: an arrival at each.
InitTaxi ==
  \/ InitWith({<<OnRunway(1, 100), OnRunway(2, 0)>>,
               <<[Vacating(1, 100) EXCEPT !.sub = "Stopped"], Vacating(2, 0)>>,
               <<[Vacating(1, 100) EXCEPT !.sub = "Override"], Vacating(2, 0)>>,
               <<AtGate(1, 900, "G1", "Parked", GroundWorld),
                 AtGate(2, 900, "G2", "Parked", GroundWorld)>>,
               <<Vacating(1, 90100), Vacating(2, 90000)>>},
              GroundWorld, {"Full"})
  \/ InitWith({<<Vacating(1, 100), Vacating(2, 0)>>,
               <<[Vacating(1, 100) EXCEPT !.sub = "Stopped"], Vacating(2, 0)>>,
               <<[Vacating(1, 100) EXCEPT !.sub = "Override"], Vacating(2, 0)>>},
              ManualWorld, {"Full"})
  \/ InitWith({<<[Vacating(1, 100) EXCEPT !.airspace = "none"],
                 [Vacating(2, 0) EXCEPT !.airspace = "none"]>>,
               <<[Vacating(1, 100) EXCEPT !.airspace = "none", !.sub = "Override"],
                 [Vacating(2, 0) EXCEPT !.airspace = "none"]>>},
              [ManualWorld EXCEPT !.airports = <<>>], {"Full"})
  \/ InitWith({<<AtGate(1, 900, "G1", "Boarding", GroundWorld),
                 AtGate(2, 900, "G2", "Boarding", GroundWorld),
                 Vacating(3, 900), Vacating(4, KBx)>>},
              [GroundWorld EXCEPT !.airports[2].automate_ground = TRUE], {"Full"})

SpecTaxi == InitTaxi /\ [][Next]_vars

-----------------------------------------------------------------------------
(* The event bus                                                           *)

\* everything the passes of the last tick appended, in the order of the passes
AllEmitted ==
  emitted.tcas \o emitted.loop \o emitted.approach \o emitted.ground \o emitted.taxi

IsPrefix(s, t) == Len(s) <= Len(t) /\ SubSeq(t, 1, Len(s)) = s

\* C1: every event a pass of tick N appended (TCAS, a handler, a state or
\* segment update, auto-approach, auto-ground, taxi-conflict) is in the list
\* tick N returned and in the inbound buffer of tick N+1.
C1_EmittedIsDelivered ==
  tick_counter > 0 => returned = AllEmitted /\ IsPrefix(AllEmitted, events)

\* the entries of the log that belong to the aircraft with this id
LogOf(lg, id) ==
  LET n == Len(lg)
      idx == SeqFilterIdx(n, [k \in 1..n |-> lg[k].id = id], 1)
  IN Tuple([k \in 1..Len(idx) |-> lg[idx[k]]], Len(idx))

\* the positions of the inbound events that target the aircraft with this id
InboundFor(inbound, id) ==
  LET n == Len(inbound)
  IN SeqFilterIdx(n, [k \in 1..n |-> IsAircraftEvent(inbound[k]) /\ inbound[k].id = id], 1)

\* the log of a tick that applies the inbound buffer as C2 describes
OrderlyLog(lg, ac, inbound) ==
  /\ \A k \in 1..Len(lg) - 1 :
       \E i, j \in 1..Len(ac) : i <= j /\ ac[i].id = lg[k].id /\ ac[j].id = lg[k + 1].id
  /\ \A i \in 1..Len(ac) :
       LET mine == LogOf(lg, ac[i].id)
           due == InboundFor(inbound, ac[i].id)
       IN /\ Len(mine) = Len(due) + 1
          /\ \A k \in 1..Len(due) :
               /\ mine[k].step = "event"
               /\ mine[k].idx = due[k]
               /\ mine[k].kind = inbound[due[k]].kind
          /\ mine[Len(mine)].step = "update"

\* C2: within one tick the aircraft are processed in insertion order, and for
\* each aircraft every inbound event carrying its id is applied exactly once,
\* in the order of the inbound list, before the update_* chain of that
\* aircraft in the same tick.
C2_InboundAppliedInOrder ==
  [][tick_counter' # tick_counter => OrderlyLog(log', aircraft, events)]_vars

\* C2 witness: a tick applied two events to one aircraft and then updated it
C2_TwoEventsThenUpdate ==
  \E k \in 1..Len(log) - 2 :
    /\ log[k].step = "event" /\ log[k + 1].step = "event"
    /\ log[k + 2].step = "update"
    /\ log[k].id = log[k + 2].id /\ log[k + 1].id = log[k + 2].id
    /\ log[k].idx < log[k + 1].idx
    /\ \E h \in 1..Len(log) : log[h].id # log[k].id /\ log[h].step = "event"

\* a step that only hands a command to the engine
CommandStep ==
  /\ Len(events') = Len(events) + 1
  /\ IsPrefix(events, events')
  /\ UNCHANGED <<aircraft, tick_counter, available, returned>>

-----------------------------------------------------------------------------
(* Touchdown                                                               *)

\* the aircraft to which the last tick applied a Touchdown while Landing
TouchedDown(i) ==
  \E k \in 1..Len(log) :
    log[k].id = aircraft[i].id /\ log[k].kind = "Touchdown" /\ log[k].was = "Landing"

\* ... and to which it applied no further event after the Touchdown
TouchdownWasLast(i) ==
  \E k \in 1..Len(log) :
    /\ log[k].id = aircraft[i].id /\ log[k].kind = "Touchdown" /\ log[k].was = "Landing"
    /\ \A h \in k + 1..Len(log) : log[h].id = aircraft[i].id => log[h].step = "update"

OnTheRunway(a) ==
  IsTaxiing(a) /\ a.cur = Node(Runway27.id, "Runway", "GoTo", a.x)

\* C4 as stated: when a Touchdown is applied to a Landing aircraft, at the end
\* of that tick (all passes done, the taxi-conflict pass of Full mode too) it
\* is Taxiing with current = the runway node, no waypoints, sub-state Override.
C4_TouchdownLeavesOverride ==
  \A i \in 1..Len(aircraft) :
    TouchedDown(i) =>
      /\ OnTheRunway(aircraft[i])
      /\ aircraft[i].waypoints = <<>>
      /\ aircraft[i].sub = "Override"

\* C4 amended: when a Touchdown is applied to a Landing aircraft and no later
\* event of that tick targets it, at the end of the tick it is Taxiing with
\* current = the runway node and no waypoints; its sub-state is Override in
\* Minimal mode and in Full mode when the taxi-conflict pass marks it as
\* conflicting, and Armed in Full mode otherwise.
C4_TouchdownThenTaxiConflict ==
  \A i \in 1..Len(aircraft) :
    /\ TouchedDown(i) => OnTheRunway(aircraft[i])
    /\ TouchdownWasLast(i) =>
         /\ aircraft[i].waypoints = <<>>
         /\ aircraft[i].sub =
              IF run_collisions(config)
                 /\ aircraft[i].id \notin TaxiCollisions(aircraft, world)
              THEN "Armed" ELSE "Override"

\* C4 witness: Full mode re-armed an aircraft in the tick of its touchdown
C4_RearmedAtTouchdown ==
  \E i \in 1..Len(aircraft) :
    TouchdownWasLast(i) /\ config = "Full" /\ aircraft[i].sub = "Armed"

\* Full mode left Override to a touched-down aircraft that is in conflict
C4_ConflictKeepsOverride ==
  \E i \in 1..Len(aircraft) :
    TouchdownWasLast(i) /\ config = "Full" /\ aircraft[i].sub = "Override"

-----------------------------------------------------------------------------
(* Gates                                                                   *)

\* an aircraft parked at a node with the gate's id, or taxiing with the gate,
\* as a node of kind Gate, as its current node or among its waypoints
HoldsGate(a, gate) ==
  \/ IsParked(a) /\ a.cur.name = gate
  \/ /\ IsTaxiing(a)
     /\ \/ a.cur.name = gate /\ a.cur.kind = "Gate"
        \/ \E k \in 1..Len(a.waypoints) :
             a.waypoints[k].name = gate /\ a.waypoints[k].kind = "Gate"

-----------------------------------------------------------------------------
(* Takeoff gating                                                          *)

\* a departure on a runway of an automated airport with nothing left to taxi
Waiting(a) ==
  /\ a.segment = "TaxiDep" /\ IsTaxiing(a)
  /\ a.cur.kind = "Runway" /\ a.waypoints = <<>>
  /\ a.airspace # "none" /\ airport_status(world, a.airspace).automate_ground

\* auto-ground emitted a Takeoff for this aircraft in the tick of `evs`
TakeoffIssued(evs, id) ==
  \E k \in 1..Len(evs) : evs[k].kind = "Takeoff" /\ evs[k].id = id

\* auto-ground assigned a gate to this (TaxiArr) aircraft in the last tick
GateAssigned(a) ==
  /\ a.segment = "TaxiArr"
  /\ \E k \in 1..Len(emitted.ground) :
       emitted.ground[k].kind = "Taxi" /\ emitted.ground[k].id = a.id

RunwayBusy(airspace) ==
  \E h \in 1..Len(aircraft) :
    aircraft[h].airspace = airspace /\ aircraft[h].segment = "Takeoff"

\* no Takeoff for an aircraft while another aircraft of its airspace is in
\* segment Takeoff
NotWhileRolling ==
  \A j \in 1..Len(aircraft) :
    TakeoffIssued(emitted.ground, aircraft[j].id) => ~RunwayBusy(aircraft[j].airspace)

\* no Takeoff for an aircraft in the tick after another aircraft of its
\* airspace was issued Takeoff
NotWhileIssued ==
  tick_counter' # tick_counter =>
    \A i, j \in 1..Len(aircraft) :
      (/\ i # j /\ aircraft[i].airspace = aircraft[j].airspace
       /\ TakeoffIssued(emitted.ground, aircraft[i].id))
      => ~TakeoffIssued(emitted'.ground, aircraft[j].id)

\* C9 as stated: when two TaxiDep aircraft of one automated-ground airspace
\* both stand on a Runway node with empty waypoints, auto-ground emits
\* Takeoff for exactly one of them per tick, the first in iteration order; the
\* second gets it only after the first entered and left segment Takeoff, and
\* no Takeoff is emitted while another aircraft of the airspace has been
\* issued Takeoff and has not left segment Takeoff.
C9_ExactlyOneTakeoffPerTick ==
  /\ [](tick_counter > 0 =>
          /\ \A i, j \in 1..Len(aircraft) :
               (/\ i < j /\ Waiting(aircraft[i]) /\ Waiting(aircraft[j])
                /\ aircraft[i].airspace = aircraft[j].airspace)
               => /\ TakeoffIssued(emitted.ground, aircraft[i].id)
                  /\ ~TakeoffIssued(emitted.ground, aircraft[j].id)
          /\ NotWhileRolling)
  /\ [][NotWhileIssued]_vars

\* C9 amended: auto-ground emits Takeoff for at most one aircraft per tick:
\* for the first aircraft in iteration order that waits (TaxiDep, on a Runway
\* node, empty waypoints, automated-ground airspace) while no aircraft of its
\* airspace is in segment Takeoff, and only if the pass did not stop before
\* reaching it at a TaxiArr aircraft to which it assigned a gate; no Takeoff
\* is emitted while another aircraft of the airspace has been issued Takeoff
\* and has not left segment Takeoff.
C9_FirstEligibleTakeoff ==
  /\ [](tick_counter > 0 =>
          /\ \A i \in 1..Len(aircraft) :
               TakeoffIssued(emitted.ground, aircraft[i].id) <=>
                 /\ Waiting(aircraft[i]) /\ ~RunwayBusy(aircraft[i].airspace)
                 /\ \A h \in 1..i - 1 :
                      /\ ~GateAssigned(aircraft[h])
                      /\ ~(Waiting(aircraft[h]) /\ ~RunwayBusy(aircraft[h].airspace))
          /\ NotWhileRolling)
  /\ [][NotWhileIssued]_vars

\* C9 witness: the second departure is cleared once the first has left
\* segment Takeoff
C9_SecondAfterFirstLeft ==
  /\ Len(aircraft) = 2
  /\ aircraft[1].segment = "Departure"
  /\ Waiting(aircraft[2]) /\ TakeoffIssued(emitted.ground, aircraft[2].id)

\* both departures wait and a gate assignment ended the pass before them
C9_GateAssignmentFirst ==
  /\ tick_counter > 0
  /\ GateAssigned(aircraft[1])
  /\ \E i, j \in 1..Len(aircraft) :
       i < j /\ Waiting(aircraft[i]) /\ Waiting(aircraft[j])

-----------------------------------------------------------------------------
(* TCAS                                                                    *)

\* the horizontal reach of a pair: the feet both need to change 500 ft
Reach(a, o) == feet_to_descend(a) + feet_to_descend(o)

Facing(a, o) ==
  \/ Abs(delta_angle(angle_between_points(a.x, o.x), a.heading)) < 90
  \/ Abs(delta_angle(angle_between_points(o.x, a.x), o.heading)) < 90

Airborne(a, o) ==
  IsFlying(a) /\ IsFlying(o) /\ a.altitude > 2000 /\ o.altitude > 2000

\* the pair of C6: V < 1000 and D^2 <= T^2
RaPair(a, o) ==
  /\ Airborne(a, o) /\ Facing(a, o)
  /\ Abs(a.altitude - o.altitude) < 1000
  /\ distance_squared(a.x, o.x) <= Reach(a, o) * Reach(a, o)

\* a pair that is assigned an advisory, TA or RA
AdvisedPair(a, o) ==
  /\ Airborne(a, o) /\ Facing(a, o)
  /\ Abs(a.altitude - o.altitude) < 2000
  /\ distance_squared(a.x, o.x) <= (2 * Reach(a, o)) * (2 * Reach(a, o))

\* lower aircraft Descend, higher aircraft Climb, after the pass
Resolved(a, o, ta, to) ==
  IF a.altitude < o.altitude THEN ta = "Descend" /\ to = "Climb"
  ELSE IF a.altitude > o.altitude THEN ta = "Climb" /\ to = "Descend"
  ELSE {ta, to} = {"Climb", "Descend"}

\* a pair after (i, j) in combinations order that holds i or j and is advised
OverwrittenLater(ac, i, j) ==
  \E p, q \in 1..Len(ac) :
    /\ p < q
    /\ p > i \/ (p = i /\ q > j)
    /\ {p, q} \cap {i, j} # {}
    /\ AdvisedPair(ac[p], ac[q])

\* C6 as stated: after each TCAS pass, for any number of aircraft and every
\* pair both Flying, both above 2000 ft, facing, V < 1000 and D^2 <= T^2: one
\* has tcas Climb and the other Descend, the lower Descend, the higher Climb.
C6_EveryRaPairResolved ==
  [][tick_counter' # tick_counter =>
       \A i, j \in 1..Len(aircraft) :
         (i < j /\ RaPair(aircraft[i], aircraft[j]))
         => Resolved(aircraft[i], aircraft[j], aircraft'[i].tcas, aircraft'[j].tcas)]_vars

\* C6 amended: after each TCAS pass, every pair both Flying, both above
\* 2000 ft, facing, V < 1000 and D^2 <= T^2 has the lower aircraft at Descend
\* and the higher at Climb, unless a later pair in combinations order that
\* holds one of the two is assigned an advisory (TA or RA), which overwrites
\* it; with two aircraft it holds for the pair.
C6_LastRaPairResolved ==
  [][tick_counter' # tick_counter =>
       \A i, j \in 1..Len(aircraft) :
         (/\ i < j /\ RaPair(aircraft[i], aircraft[j])
          /\ ~OverwrittenLater(aircraft, i, j))
         => Resolved(aircraft[i], aircraft[j], aircraft'[i].tcas, aircraft'[j].tcas)]_vars

\* C6 witness: a pass resolved the head-on pair, the lower aircraft descending
C6_HeadOnResolved ==
  /\ tick_counter > 0
  /\ aircraft[1].altitude < aircraft[2].altitude
  /\ RaPair(aircraft[1], aircraft[2])
  /\ aircraft[1].tcas = "Descend" /\ aircraft[2].tcas = "Climb"

\* the number of CalloutTARA events for the aircraft in a list of events
Callouts(evs, id) ==
  Cardinality({k \in 1..Len(evs) : evs[k].kind = "CalloutTARA" /\ evs[k].id = id})

Advised(ac, i) ==
  \E j \in 1..Len(ac) : j # i /\ AdvisedPair(ac[i], ac[j])

-----------------------------------------------------------------------------
(* Go-around                                                               *)

\* the last tick applied GoAround to aircraft i while it was Landing
WentAround(i) ==
  \E k \in 1..Len(log) :
    /\ log[k].id = aircraft[i].id /\ log[k].step = "event"
    /\ log[k].kind = "GoAround" /\ log[k].was = "Landing"

\* the events of the buffer for the aircraft that set a speed target
SpeedOrders(evs, id) ==
  SelectSeq(evs, LAMBDA e : e.id = id /\ e.kind \in {"Speed", "SpeedAtOrBelow"})

C5_WentAround ==
  \E i \in 1..Len(aircraft) :
    WentAround(i) /\ IsFlying(aircraft[i]) /\ ~aircraft[i].follow

\* a go-around whose next buffer holds no speed order for the aircraft
C5_NoSpeedOrder ==
  \E i \in 1..Len(aircraft) :
    WentAround(i) /\ SpeedOrders(events, aircraft[i].id) = <<>>

-----------------------------------------------------------------------------
(* Course offset                                                           *)

\* C10: after every tick the magnitude of every aircraft's
\* flight_plan.course_offset is at most that aircraft's max_deviation_angle:
\* the offset is 0 or plus or minus max_deviation_angle.
C10_CourseOffsetBounded ==
  \A i \in 1..Len(aircraft) :
    LET m == separation_minima(aircraft[i]).max_deviation_angle
    IN /\ Abs(aircraft[i].course_offset) <= m
       /\ aircraft[i].course_offset \in {0, m, -m}

\* C10 witness: a tick of auto-approach set a follower off course by the
\* maximum deviation angle
C10_FollowerDeviates ==
  /\ tick_counter > 0
  /\ \E i \in 1..Len(aircraft) :
       /\ aircraft[i].segment # "Landing"
       /\ Abs(aircraft[i].course_offset)
            = separation_minima(aircraft[i]).max_deviation_angle

\* a Heading command took the deviation back to 0
C10_HeadingClearsOffset ==
  \E i \in 1..Len(aircraft) :
    /\ aircraft[i].course_offset = 0 /\ IsFlying(aircraft[i])
    /\ \E k \in 1..Len(log) :
         /\ log[k].id = aircraft[i].id /\ log[k].kind = "Heading"
         /\ log[k].was = "Flying"

-----------------------------------------------------------------------------
(* Parked aircraft and their segment                                       *)

\* the log entries of the inbound events of the last tick
EventEntries == {k \in 1..Len(log) : log[k].step = "event"}

\* the aircraft of the fleet that has the id
AircraftOf(id) == aircraft[CHOOSE i \in 1..Len(aircraft) : aircraft[i].id = id]

-----------------------------------------------------------------------------
(* Illegal transitions                                                     *)

\* the transition events that the state `was` of an aircraft does not allow
Illegal(kind, was) ==
  \/ kind = "Takeoff" /\ was # "Taxiing"
  \/ kind = "Land" /\ was \in {"Parked", "Taxiing"}
  \/ kind \in {"GoAround", "Touchdown"} /\ was # "Landing"
  \/ kind = "Taxi" /\ was \in {"Flying", "Landing"}
  \/ kind = "ResumeOwnNavigation" /\ was # "Flying"

\* C12: an illegal transition event (Takeoff on an aircraft that is not
\* Taxiing, Land on a Parked or Taxiing one, GoAround or Touchdown on one that
\* is not Landing, Taxi on a Flying or Landing one, ResumeOwnNavigation on one
\* that is not Flying) leaves every field of the aircraft as it was and
\* appends no event.
C12_IllegalTransitionIgnored ==
  \A k \in EventEntries :
    Illegal(log[k].kind, log[k].was) =>
      log[k].post = log[k].pre /\ log[k].pushed = <<>>

\* a tick applied Land(27) to an aircraft taxiing on runway 27 of its airport
C12_LandWhileTaxiing ==
  \E k \in EventEntries :
    /\ log[k].kind = "Land" /\ log[k].was = "Taxiing"
    /\ log[k].pre.cur.name = "27"
    /\ FindRunway(find_airport(log[k].pre, world), "27") # NoRunway

-----------------------------------------------------------------------------
(* Taxi without a path                                                     *)

\* the destinations of a Taxi event the handler asks the path-finder for: all
\* but a first one that is the node the aircraft stands on
TaxiLegsAsked(a, dests) ==
  (IF Len(dests) > 0 /\ name_and_kind_eq(dests[1], a.cur) THEN 2 ELSE 1)
    .. Len(dests)

\* an entry of the log: Taxi applied to a Parked or Taxiing aircraft in the
\* airspace of an airport whose path-finder has no path for the leg to
\* destination i
NoPathEntry(k, i) ==
  /\ log[k].kind = "Taxi"
  /\ log[k].was \in {"Parked", "Taxiing"}
  /\ find_airport(log[k].pre, world) # NoAirport
  /\ i \in TaxiLegsAsked(log[k].pre, log[k].ev.ns)
  /\ path_to(find_airport(log[k].pre, world), log[k].pre.cur, log[k].ev.ns[i]) = <<>>

\* C13: when the path-finder has no path for some leg of a Taxi event, the
\* handler leaves the aircraft as it was (state variant, current node,
\* waypoints, sub-state, targets, speed) and pushes no event, TaxiContinue
\* included, also when earlier legs of the event were found.
C13_NoPathNoTaxi ==
  \A k \in EventEntries :
    (\E i \in 1..Len(log[k].ev.ns) : NoPathEntry(k, i)) =>
      log[k].post = log[k].pre /\ log[k].pushed = <<>>

\* a tick applied a Taxi event whose first leg has a path and whose second
\* leg has none
C13_SecondLegWithoutPath ==
  \E k \in EventEntries :
    /\ NoPathEntry(k, 2)
    /\ 1 \in TaxiLegsAsked(log[k].pre, log[k].ev.ns)
    /\ path_to(find_airport(log[k].pre, world), log[k].pre.cur,
               log[k].ev.ns[1]) # <<>>

-----------------------------------------------------------------------------
(* Ticks that do not complete                                              *)

\* C14: tick always runs all its steps to the end; no world and no inbound
\* list makes it abort, in particular not an Approach aircraft with a STAR in
\* an automated airspace whose airport has no runway, a Parked aircraft whose
\* departing airport has no runway, or an aircraft without STAR.
C14_TickCompletes == ~panicked

-----------------------------------------------------------------------------
(* The automation passes in a world without airports                       *)

\* the aircraft as the loop over game.aircraft of the last tick left it
AfterUpdate(id) ==
  log[CHOOSE k \in 1..Len(log) : log[k].step = "update" /\ log[k].id = id].post

\* a record of the aircraft without the fields f1 and f2
Without(a, f1, f2) == [f \in (DOMAIN a) \ {f1, f2} |-> a[f]]

\* en-route traffic: in the air, outside every airspace, not landing
EnRoute(a) == in_air(a.segment) /\ a.airspace = "none" /\ a.segment # "Landing"

\* C15: in a world without airports the auto-approach and auto-ground passes
\* of a tick append no event and change no field of an aircraft: no Speed
\* event and no course_offset, also for aircraft in the air outside every
\* airspace.
C15_AutomationIdleWithoutAirports ==
  (world.airports = <<>> /\ tick_counter > 0) =>
    /\ emitted.approach = <<>>
    /\ emitted.ground = <<>>
    /\ \A i \in 1..Len(aircraft) :
         aircraft[i].course_offset = AfterUpdate(aircraft[i].id).course_offset

\* C15 as the passes behave: without airports auto-ground appends nothing and
\* auto-approach generates no pattern, but its spacing loop still ranks the
\* en-route aircraft: it appends Speed events for them only, with a speed
\* between min_speed and max_speed, and writes their course_offset only (0 or
\* max_deviation_angle to either side); no other field changes (the
\* taxi-conflict pass owns the taxi sub-state).
C15_OnlyEnRouteSpacing ==
  (world.airports = <<>> /\ tick_counter > 0) =>
    /\ emitted.ground = <<>>
    /\ \A k \in 1..Len(emitted.approach) :
         /\ emitted.approach[k].kind = "Speed"
         /\ emitted.approach[k].n \in
              separation_minima(aircraft[1]).min_speed ..
                separation_minima(aircraft[1]).max_speed
         /\ emitted.approach[k].id \in Ids(aircraft)
         /\ EnRoute(AfterUpdate(emitted.approach[k].id))
    /\ \A i \in 1..Len(aircraft) :
         /\ Without(aircraft[i], "course_offset", "sub")
              = Without(AfterUpdate(aircraft[i].id), "course_offset", "sub")
         /\ aircraft[i].course_offset # AfterUpdate(aircraft[i].id).course_offset =>
              /\ EnRoute(aircraft[i])
              /\ Abs(aircraft[i].course_offset)
                   \in {0, separation_minima(aircraft[i]).max_deviation_angle}

\* a tick in a world without airports slowed an en-route follower to
\* min_speed and turned it off its course
C15_EnRouteFollowerSlowed ==
  /\ world.airports = <<>> /\ tick_counter > 0
  /\ \E i \in 1..Len(aircraft) :
       /\ EnRoute(aircraft[i])
       /\ aircraft[i].course_offset # 0
       /\ AfterUpdate(aircraft[i].id).course_offset = 0
       /\ \E k \in 1..Len(emitted.approach) :
            emitted.approach[k]
              = EvN(aircraft[i].id, "Speed", separation_minima(aircraft[i]).min_speed)

-----------------------------------------------------------------------------
(* Determinism                                                             *)

\* the results of the next tick for one draw of the RNG and one progress of
\* the motion, over the iteration orders of the HashMap of arrival groups
TickResults(rnd, progress) ==
  Let(TickLoop(aircraft, events, world, config, rnd, progress), LAMBDA pre :
    {TickAuto(pre, world, config, perm) :
       perm \in Permutations(1..NumGroups(pre.aircraft, world))})

\* C16: two engines in the same state, with the same RNG seed and the same
\* inbound events, leave a tick with the same aircraft and the same outbound
\* list, events in the same order, also when auto-approach handles two or
\* more arrival groups of its hash map.
C16_TickIsDeterministic ==
  (~paused /\ ~panicked) =>
    \A rnd \in RngDraws(world), progress \in SUBSET Moving(aircraft) :
      \A r1, r2 \in TickResults(rnd, progress) :
        r1.aircraft = r2.aircraft /\ r1.events = r2.events

-----------------------------------------------------------------------------
(* The collision passes and the engine configuration                       *)

\* the aircraft as the loop over game.aircraft of the last tick found it
BeforeLoop(id) ==
  log[CHOOSE k \in 1..Len(log) :
        log[k].id = id /\ \A j \in 1..Len(log) : log[j].id = id => k <= j].pre

\* the aircraft as the automation passes of the last tick left them: as the
\* loop left them, with the course offset auto-approach wrote
AfterAutomation ==
  Tuple([i \in 1..Len(aircraft) |->
           [AfterUpdate(aircraft[i].id)
              EXCEPT !.course_offset = aircraft[i].course_offset]],
        Len(aircraft))

\* C17: with Minimal no tick runs the TCAS or the taxi-conflict pass (no tcas
\* value and no taxi sub-state changes through a collision pass, the engine
\* emits no CalloutTARA); with Full every tick runs both, TCAS before the
\* loop over the aircraft and taxi-conflict last, after the automation.
C17_CollisionPassesByConfig ==
  [][tick_counter' = tick_counter + 1 =>
       IF config = "Minimal"
       THEN /\ emitted'.tcas = <<>> /\ emitted'.taxi = <<>>
            /\ \A i \in 1..Len(aircraft) :
                 /\ BeforeLoop(aircraft[i].id)' = aircraft[i]
                 /\ aircraft'[i].tcas = aircraft[i].tcas
            /\ aircraft' = AfterAutomation'
            /\ \A k \in 1..Len(returned') : returned'[k].kind # "CalloutTARA"
       ELSE /\ emitted'.tcas = handle_tcas(aircraft).events
            /\ \A i \in 1..Len(aircraft) :
                 BeforeLoop(aircraft[i].id)' = handle_tcas(aircraft).aircraft[i]
            /\ aircraft' = taxi_collisions(AfterAutomation', world).aircraft
            /\ emitted'.taxi = taxi_collisions(AfterAutomation', world).events]_vars

\* a Minimal tick left two aircraft in conflict geometry without advisory
C17_ConflictUnadvised ==
  /\ config = "Minimal" /\ tick_counter > 0
  /\ RaPair(aircraft[1], aircraft[2])
  /\ aircraft[1].tcas = "Idle" /\ aircraft[2].tcas = "Idle"

-----------------------------------------------------------------------------
(* The aircraft of the game                                                *)

\* the ids of the aircraft in the order of game.aircraft
IdsInOrder(ac) == Tuple([i \in 1..Len(ac) |-> ac[i].id], Len(ac))

\* C18: a tick adds, removes and reorders no aircraft: game.aircraft holds
\* the same ids in the same order before and after it.  A Delete event
\* applied to an aircraft leaves it in the game and puts a Delete request
\* for it into the outbound list.
C18_AircraftStayInTheGame ==
  [][/\ IdsInOrder(aircraft') = IdsInOrder(aircraft)
     /\ tick_counter' = tick_counter + 1 =>
          \A k \in EventEntries' :
            log'[k].kind = "Delete" =>
              /\ log'[k].post = log'[k].pre
              /\ log'[k].pushed = <<Ev(log'[k].id, "Delete")>>
              /\ log'[k].id \in Ids(aircraft')
              /\ \E j \in 1..Len(returned') :
                   returned'[j] = Ev(log'[k].id, "Delete")]_vars

\* a tick applied Delete to an aircraft that is still in the game, and
\* returned the request
C18_DeleteRequested ==
  \E k \in EventEntries :
    /\ log[k].kind = "Delete"
    /\ log[k].id \in Ids(aircraft)
    /\ Ev(log[k].id, "Delete") \in Range(returned)

-----------------------------------------------------------------------------
(* Direct and the index of the flight plan                                 *)

\* the positions (from 1) of the waypoints of the plan with the name
Named(a, name) == {i \in 1..Len(a.fp_wps) : a.fp_wps[i].name = name}

\* the event of the entry leaves the index within the plan
IndexInPlan(k) ==
  log[k].kind \in {"Direct", "AmendAndFollow", "ResumeOwnNavigation"} =>
    log[k].post.fp_index <= Len(log[k].post.fp_wps)

\* Direct changes the index only, and nothing without a waypoint of the name
DirectSetsIndexOnly(k) ==
  /\ log[k].pushed = <<>>
  /\ log[k].post = [log[k].pre EXCEPT !.fp_index = log[k].post.fp_index]
  /\ Named(log[k].pre, log[k].ev.s) = {} => log[k].post = log[k].pre
  /\ Named(log[k].pre, log[k].ev.s) # {} =>
       waypoint(log[k].post).name = log[k].ev.s

\* C19: Direct(name) moves flight_plan.index forward to the waypoint of that
\* name, never back to a waypoint already passed, and changes nothing when no
\* waypoint has the name; after Direct, AmendAndFollow or
\* ResumeOwnNavigation the index is at most the number of waypoints.
C19_DirectAdvances ==
  \A k \in EventEntries :
    /\ IndexInPlan(k)
    /\ log[k].kind = "Direct" =>
         /\ DirectSetsIndexOnly(k)
         /\ log[k].post.fp_index >= log[k].pre.fp_index

\* C19 as the handler behaves: Direct(name) makes the first waypoint of the
\* plan with that name the active one, whether it lies ahead of the index or
\* behind it (a waypoint already passed is flown again), and changes nothing
\* when no waypoint has the name; after Direct, AmendAndFollow or
\* ResumeOwnNavigation the index is at most the number of waypoints.
C19_DirectToFirstNamed ==
  \A k \in EventEntries :
    /\ IndexInPlan(k)
    /\ log[k].kind = "Direct" =>
         /\ DirectSetsIndexOnly(k)
         /\ \A i \in Named(log[k].pre, log[k].ev.s) : log[k].post.fp_index < i

\* a tick applied Direct with the name of a waypoint the aircraft had passed
C19_DirectBackwards ==
  \E k \in EventEntries :
    /\ log[k].kind = "Direct"
    /\ Named(log[k].pre, log[k].ev.s) # {}
    /\ log[k].post.fp_index < log[k].pre.fp_index

-----------------------------------------------------------------------------
(* TaxiContinue                                                            *)

\* C20: TaxiContinue applied to a Taxiing aircraft sets target.speed to 20,
\* turns the sub-state Holding into Armed and Stopped into Override and
\* leaves Armed and Override as they are; applied to an aircraft that is not
\* Taxiing it changes nothing.
C20_TaxiContinue ==
  \A k \in EventEntries :
    log[k].kind = "TaxiContinue" =>
      /\ log[k].pushed = <<>>
      /\ log[k].post =
           IF log[k].was = "Taxiing"
           THEN [log[k].pre EXCEPT
                   !.tspeed = 20,
                   !.sub = CASE log[k].pre.sub = "Holding" -> "Armed"
                             [] log[k].pre.sub = "Stopped" -> "Override"
                             [] log[k].pre.sub = "Armed" -> "Armed"
                             [] log[k].pre.sub = "Override" -> "Override"]
           ELSE log[k].pre

\* a tick applied TaxiContinue to a stopped aircraft
C20_StoppedContinues ==
  \E k \in EventEntries :
    /\ log[k].kind = "TaxiContinue"
    /\ log[k].was = "Taxiing" /\ log[k].pre.sub = "Stopped"
    /\ log[k].post.sub = "Override" /\ log[k].post.tspeed = 20

-----------------------------------------------------------------------------
(* LineUp                                                                  *)

\* the first waypoint of the taxiing aircraft is the Runway node of the name
FirstWaypointIsRunway(a, name) ==
  /\ Len(a.waypoints) > 0
  /\ a.waypoints[1].kind = "Runway" /\ a.waypoints[1].name = name

\* the aircraft with the behavior of its first waypoint set
WithFirstBehavior(a, behavior) == [a EXCEPT !.waypoints[1].behavior = behavior]

\* C21: LineUp(rwy) applied to a Taxiing aircraft sets the behavior of the
\* first waypoint to LineUp and emits TaxiContinue only if the first waypoint
\* is the Runway node named rwy; with another first waypoint or without
\* waypoints no waypoint changes and no TaxiContinue is emitted.
C21_LineUpOnlyAtRunway ==
  \A k \in EventEntries :
    (log[k].kind = "LineUp" /\ log[k].was = "Taxiing") =>
      IF FirstWaypointIsRunway(log[k].pre, log[k].ev.s)
      THEN /\ log[k].post = WithFirstBehavior(log[k].pre, "LineUp")
           /\ log[k].pushed = <<Ev(log[k].id, "TaxiContinue")>>
      ELSE log[k].post = log[k].pre /\ log[k].pushed = <<>>

\* C21 as the handler behaves: LineUp(rwy) applied to a Taxiing aircraft
\* always emits TaxiContinue; it sets the behavior of the first waypoint to
\* LineUp if that waypoint is the Runway node named rwy and changes no
\* waypoint otherwise.  Applied to an aircraft that is not Taxiing it changes
\* and emits nothing.
C21_LineUpAlwaysContinues ==
  \A k \in EventEntries :
    log[k].kind = "LineUp" =>
      IF log[k].was = "Taxiing"
      THEN /\ log[k].pushed = <<Ev(log[k].id, "TaxiContinue")>>
           /\ log[k].post =
                IF FirstWaypointIsRunway(log[k].pre, log[k].ev.s)
                THEN WithFirstBehavior(log[k].pre, "LineUp")
                ELSE log[k].pre
      ELSE log[k].post = log[k].pre /\ log[k].pushed = <<>>

\* a tick applied LineUp with the name of another runway to an aircraft
\* taxiing to a runway, and TaxiContinue was emitted
C21_ContinuesToOtherRunway ==
  \E k \in EventEntries :
    /\ log[k].kind = "LineUp" /\ log[k].was = "Taxiing"
    /\ Len(log[k].pre.waypoints) > 0
    /\ ~FirstWaypointIsRunway(log[k].pre, log[k].ev.s)
    /\ Ev(log[k].id, "TaxiContinue") \in Range(log[k].pushed)

-----------------------------------------------------------------------------
(* Takeoff                                                                 *)

\* the aircraft airborne from the runway of the name: Flying, with the
\* targets of the climb-out and the heading of the runway
TakenOff(a, name, w) ==
  SetFlying([a EXCEPT
               !.tspeed = separation_minima(a).max_speed,
               !.talt = a.fp_alt,
               !.heading = FindRunway(find_airport(a, w), name).heading,
               !.thead = FindRunway(find_airport(a, w), name).heading])

-----------------------------------------------------------------------------
(* Heading                                                                 *)

\* the aircraft turned to the heading, off its flight plan
OffThePlan(a, heading) ==
  [a EXCEPT !.thead = heading, !.follow = FALSE, !.course_offset = 0]

\* C23: Heading(h) applied to a Flying or a Landing aircraft sets
\* target.heading to h, clears the follow-flag and sets course_offset to 0,
\* in both states; applied to a Parked or Taxiing aircraft it changes nothing.
C23_HeadingCancelsPlan ==
  \A k \in EventEntries :
    log[k].kind = "Heading" =>
      /\ log[k].pushed = <<>>
      /\ log[k].post = IF log[k].was \in {"Flying", "Landing"}
                       THEN OffThePlan(log[k].pre, log[k].ev.n)
                       ELSE log[k].pre

\* C23 as the handler behaves: Heading(h) sets target.heading to h for a
\* Flying and for a Landing aircraft, but clears the follow-flag and sets
\* course_offset to 0 for a Flying aircraft only; a Landing aircraft keeps
\* both.  Applied to a Parked or Taxiing aircraft it changes nothing.
C23_HeadingCancelsPlanWhenFlying ==
  \A k \in EventEntries :
    log[k].kind = "Heading" =>
      /\ log[k].pushed = <<>>
      /\ log[k].post =
           CASE log[k].was = "Flying" -> OffThePlan(log[k].pre, log[k].ev.n)
             [] log[k].was = "Landing" -> [log[k].pre EXCEPT !.thead = log[k].ev.n]
             [] OTHER -> log[k].pre

\* a tick applied Heading to a landing aircraft, which turned and kept
\* following its plan
C23_LandingKeepsFollowing ==
  \E k \in EventEntries :
    /\ log[k].kind = "Heading" /\ log[k].was = "Landing"
    /\ log[k].pre.follow /\ log[k].post.follow
    /\ log[k].post.thead = log[k].ev.n /\ log[k].pre.thead # log[k].ev.n

-----------------------------------------------------------------------------
(* Land                                                                    *)

\* the runways of the name at the airport of the aircraft
RunwaysNamed(a, name, w) ==
  IF find_airport(a, w) = NoAirport THEN {}
  ELSE {find_airport(a, w).runways[i] : i \in RunwayIdx(find_airport(a, w), name)}

\* C24: Land(rwy) applied to a Flying or Landing aircraft whose airport has a
\* runway rwy sets the state to Landing{runway: rwy, sub: Approach}, also when
\* the aircraft was already Landing with sub Established; when rwy is not a
\* runway of the aircraft's airport the state is unchanged.
C24_LandSelectsRunway ==
  \A k \in EventEntries :
    (log[k].kind = "Land" /\ log[k].was \in {"Flying", "Landing"}) =>
      /\ log[k].pushed = <<>>
      /\ IF RunwaysNamed(log[k].pre, log[k].ev.s, world) # {}
         THEN /\ IsLanding(log[k].post)
              /\ log[k].post.runway \in RunwaysNamed(log[k].pre, log[k].ev.s, world)
              /\ log[k].post.runway.id = log[k].ev.s
              /\ log[k].post.sub = "Approach"
         ELSE log[k].post = log[k].pre

\* a tick applied Land(27) to an aircraft established on runway 27, which is
\* back on the approach to it
C24_EstablishedReselects ==
  \E k \in EventEntries :
    /\ log[k].kind = "Land" /\ log[k].was = "Landing"
    /\ log[k].pre.sub = "Established" /\ log[k].ev.s = "27"
    /\ log[k].post.sub = "Approach" /\ log[k].post.runway.id = "27"

-----------------------------------------------------------------------------
(* The taxi-conflict pass                                                  *)

\* the aircraft on the ground
OnGround(a) == IsTaxiing(a) \/ IsParked(a)

\* the aircraft the taxi-conflict pass of the last tick found at position i
\* has another aircraft on the ground in its box (150 ft ahead, 120 ft to the
\* side), the pair being one that `allowed` lets the pass look at
InConflict(i, allowed(_, _)) ==
  \E j \in 1..Len(aircraft) :
    /\ j # i
    /\ OnGround(AfterAutomation[i]) /\ OnGround(AfterAutomation[j])
    /\ allowed(AfterAutomation[i], AfterAutomation[j])
    /\ TaxiMarked(AfterAutomation[i], AfterAutomation[j])

\* pairs in one airspace, not both parked
SameAirspace(a, o) == a.airspace = o.airspace /\ ~(IsParked(a) /\ IsParked(o))

\* the airspace of the aircraft is one where the ground is not automated
ManualGround(a) ==
  a.airspace # "none" /\ ~airport_status(world, a.airspace).automate_ground

\* pairs in one airspace, not both parked, not at an airport with manual
\* ground control
Watched(a, o) == SameAirspace(a, o) /\ ~ManualGround(a)

\* an event of the kind for the aircraft is in the list
Holds(list, id, kind) ==
  \E k \in 1..Len(list) : list[k].id = id /\ list[k].kind = kind

\* C25: in Full mode, in the taxi-conflict pass of each tick a Taxiing
\* aircraft that is marked conflicting and Armed becomes Stopped and a
\* TaxiHold{and_state: false} event for it is in the list the tick returns; a
\* Taxiing aircraft that is not marked and Stopped or Override becomes Armed,
\* and coming from Stopped a TaxiContinue event for it is in the list the
\* tick returns.
C25_TaxiConflictAnnounced ==
  (config = "Full" /\ tick_counter > 0) =>
    \A i \in 1..Len(aircraft) :
      IsTaxiing(AfterAutomation[i]) =>
        /\ (InConflict(i, Watched) /\ AfterAutomation[i].sub = "Armed") =>
             /\ aircraft[i].sub = "Stopped"
             /\ EvB(aircraft[i].id, "TaxiHold", FALSE) \in Range(returned)
        /\ (~InConflict(i, Watched)
              /\ AfterAutomation[i].sub \in {"Stopped", "Override"}) =>
             /\ aircraft[i].sub = "Armed"
             /\ AfterAutomation[i].sub = "Stopped" =>
                  Ev(aircraft[i].id, "TaxiContinue") \in Range(returned)

C27_OverrideIsImmune ==
  tick_counter > 0 =>
    /\ \A i \in 1..Len(aircraft) :
         (IsTaxiing(AfterAutomation[i]) /\ AfterAutomation[i].sub = "Override") =>
           /\ aircraft[i].sub # "Stopped"
           /\ aircraft[i].sub = IF InConflict(i, Watched) THEN "Override" ELSE "Armed"
    /\ \A k \in 1..Len(log) :
         (IsTaxiing(log[k].pre) /\ log[k].pre.sub = "Override"
            /\ IsTaxiing(log[k].post)) =>
           \/ log[k].post.sub = "Override"
           \/ /\ log[k].kind = "TaxiHold" /\ log[k].ev.b
              /\ log[k].post.sub = "Holding"

\* after the last tick of the run an aircraft is still in Override with
\* another aircraft in its box, as it was when the run began
C27_OverrideOutlastsConflict ==
  /\ tick_counter = MaxTicks
  /\ \E i \in 1..Len(aircraft) :
       /\ IsTaxiing(AfterAutomation[i]) /\ AfterAutomation[i].sub = "Override"
       /\ InConflict(i, Watched)
       /\ aircraft[i].sub = "Override"
       /\ BeforeLoop(aircraft[i].id).sub = "Override"

-----------------------------------------------------------------------------
(* Arrival spacing                                                         *)

\* the aircraft as the loop over game.aircraft of the last tick left them
Looped ==
  Tuple([i \in 1..Len(aircraft) |-> AfterUpdate(aircraft[i].id)], Len(aircraft))

\* the aircraft at position i was spaced by auto-approach in the last tick
Spaced(i) == i \in Range(ApproachFilter(Looped, world))

\* j is ahead of i in the group of i: same airspace and final waypoint,
\* nearer to it (aircraft at the same distance keep the order of the game)
Ahead(j, i) ==
  /\ Spaced(j) /\ Spaced(i) /\ j # i
  /\ ApproachKey(Looped[j]) = ApproachKey(Looped[i])
  /\ \/ distance_to_last(Looped[j]) < distance_to_last(Looped[i])
     \/ distance_to_last(Looped[j]) = distance_to_last(Looped[i]) /\ j < i

\* the aircraft directly ahead of i in its group
Preceding(i) ==
  CHOOSE j \in 1..Len(aircraft) :
    Ahead(j, i) /\ \A k \in 1..Len(aircraft) : ~(Ahead(j, k) /\ Ahead(k, i))

\* the speed and course offset the spacing rules of C28 give a follower whose
\* distance exceeds that of the aircraft ahead by diff
SpacingRule(a, diff) ==
  CASE diff < separation_minima(a).separation_distance \div 2 ->
         [speed |-> separation_minima(a).min_speed,
          offset |-> -sign3(a.turn_bias) * separation_minima(a).max_deviation_angle]
    [] /\ diff >= separation_minima(a).separation_distance \div 2
       /\ diff < separation_minima(a).separation_distance ->
         [speed |-> separation_minima(a).min_speed
                      + ((diff - separation_minima(a).separation_distance \div 2)
                           * (separation_minima(a).max_speed
                                - separation_minima(a).min_speed))
                          \div (separation_minima(a).separation_distance \div 2),
          offset |-> 0]
    [] OTHER -> [speed |-> separation_minima(a).max_speed, offset |-> 0]

\* what auto-approach commands the aircraft at position i
Commanded(i) ==
  IF \A j \in 1..Len(aircraft) : ~Ahead(j, i)
  THEN [speed |-> separation_minima(Looped[i]).max_speed, offset |-> 0]
  ELSE SpacingRule(Looped[i], distance_to_last(Looped[i])
                                - distance_to_last(Looped[Preceding(i)]))

\* the speeds of the Speed events auto-approach appended for the aircraft
SpacingSpeeds(id) ==
  {emitted.approach[k].n :
     k \in {m \in 1..Len(emitted.approach) :
              emitted.approach[m].id = id /\ emitted.approach[m].kind = "Speed"}}

\* C28: in each group (airspace, final waypoint) sorted by distance to the
\* final waypoint, auto-approach commands the first aircraft max_speed with
\* course_offset 0 and each follower, by its distance behind the aircraft
\* ahead, min_speed with offset -sign3(turn_bias) * max_deviation_angle
\* (diff < sep/2), the interpolated speed with offset 0 (sep/2 <= diff < sep),
\* or max_speed with offset 0; a Speed event is emitted only when the
\* commanded speed differs from target.speed, and an aircraft with segment
\* Landing gets neither a Speed event nor a course_offset change.
C28_SpacingRules ==
  tick_counter > 0 =>
    \A i \in 1..Len(aircraft) :
      IF Spaced(i) /\ Looped[i].segment # "Landing"
      THEN /\ aircraft[i].course_offset = Commanded(i).offset
           /\ SpacingSpeeds(aircraft[i].id) =
                IF Looped[i].tspeed # Commanded(i).speed
                THEN {Commanded(i).speed} ELSE {}
      ELSE /\ aircraft[i].course_offset = Looped[i].course_offset
           /\ SpacingSpeeds(aircraft[i].id) = {}

\* auto-approach slowed a follower less than half the separation behind the
\* aircraft ahead to min_speed and turned it away from its next turn
C28_CloseFollowerDelayed ==
  /\ tick_counter > 0
  /\ \E i \in 1..Len(aircraft) :
       /\ Spaced(i) /\ Looped[i].segment # "Landing"
       /\ \E j \in 1..Len(aircraft) : Ahead(j, i)
       /\ Looped[i].turn_bias = 1
       /\ aircraft[i].course_offset = -separation_minima(Looped[i]).max_deviation_angle
       /\ SpacingSpeeds(aircraft[i].id) = {separation_minima(Looped[i]).min_speed}

\* three aircraft in one arrival group, 6, 10 and 14 NM from the final
\* waypoint, turn_bias +1, flying a target speed of 200 kt
ThreeInTrail ==
  /\ tick_counter > 0
  /\ Len(aircraft) = 3
  /\ \A i \in 1..3 :
       /\ Spaced(i) /\ Looped[i].segment # "Landing"
       /\ ApproachKey(Looped[i]) = ApproachKey(Looped[1])
       /\ distance_to_last(Looped[i]) = (2 + 4 * i) * NAUTICALMILES_TO_FEET
       /\ Looped[i].turn_bias = 1
       /\ Looped[i].tspeed = 200

\* auto-approach ordered the leader of the three to 250 kt and both followers
\* to the speed v, all three with course_offset 0
TrailOrdered(v) ==
  /\ SpacingSpeeds(aircraft[1].id) = {250}
  /\ SpacingSpeeds(aircraft[2].id) = {v}
  /\ SpacingSpeeds(aircraft[3].id) = {v}
  /\ \A i \in 1..3 : aircraft[i].course_offset = 0

\* C29: for three aircraft in one group at 6, 10 and 14 NM from the final
\* waypoint (separation 5 NM, speeds 170 to 250 kt, turn_bias +1)
\* auto-approach commands the leader 250 kt with offset 0 and the second and
\* the third the same interpolated speed of about 221 kt (within 1 kt) with
\* offset 0.
C29_FollowersAbout221 ==
  ThreeInTrail => \E v \in 220..222 : TrailOrdered(v)

\* C29 as computed: the followers, each 4 NM behind the aircraft ahead, are
\* commanded 170 + ((4 - 2.5) / 2.5) * 80 = 218 kt with offset 0, the leader
\* 250 kt with offset 0.
C29_FollowersAt218 ==
  ThreeInTrail => TrailOrdered(218)

\* the three aircraft were ordered in a tick: 250, 218 and 218 kt
C29_TrailWasOrdered ==
  ThreeInTrail /\ TrailOrdered(218)

-----------------------------------------------------------------------------
(* Landing clearance                                                       *)

\* the aircraft at position i, on approach in an airspace with automated
\* approach control and with a STAR in its plan, has the final fix as active
\* waypoint and is within 1.5 NM of it
AtFinalFix(i) ==
  /\ Looped[i].segment = "Approach"
  /\ Looped[i].airspace # "none"
  /\ airport_status(world, Looped[i].airspace).automate_air
  /\ \E k \in 1..Len(Looped[i].fp_wps) : Looped[i].fp_wps[k].name = "STAR"
  /\ ~at_end(Looped[i])
  /\ waypoint(Looped[i]).x = FinalFix /\ waypoint(Looped[i]).y = 0
  /\ 2 * Abs(FinalFix - Looped[i].x) <= 3 * NAUTICALMILES_TO_FEET

\* another aircraft of the same airspace with segment Landing is within
\* 3.5 NM of the aircraft at position i
LandingTrafficNear(i) ==
  \E j \in 1..Len(aircraft) :
    /\ j # i
    /\ Looped[j].airspace = Looped[i].airspace
    /\ Looped[j].segment = "Landing"
    /\ 2 * Abs(Looped[j].x - Looped[i].x) < 7 * NAUTICALMILES_TO_FEET

\* the positions of the events of the kind that auto-approach appended for
\* the aircraft in the last tick
ApproachOrders(id, kind) ==
  {k \in 1..Len(emitted.approach) :
     emitted.approach[k].id = id /\ emitted.approach[k].kind = kind}

\* C30: auto-approach emits Land(runway), preceded by SpeedAtOrBelow(180),
\* for an Approach aircraft only in a tick where its active waypoint is the
\* final fix, it is within 1.5 NM of that fix and no other aircraft of the
\* same airspace with segment Landing is within 3.5 NM; when there is such a
\* landing aircraft it emits AmendAndFollow([DW, CW]) for the approaching
\* aircraft instead and no Land in that tick.
C30_LandOnlyWhenSeparated ==
  tick_counter > 0 =>
    \A i \in 1..Len(aircraft) :
      /\ \A k \in ApproachOrders(aircraft[i].id, "Land") :
           /\ AtFinalFix(i) /\ ~LandingTrafficNear(i)
           /\ emitted.approach[k].s = "27"
           /\ k > 1
           /\ emitted.approach[k - 1] = EvN(aircraft[i].id, "SpeedAtOrBelow", 180)
      /\ (AtFinalFix(i) /\ LandingTrafficNear(i)) =>
           /\ ApproachOrders(aircraft[i].id, "Land") = {}
           /\ \E k \in ApproachOrders(aircraft[i].id, "AmendAndFollow") :
                /\ Len(emitted.approach[k].ns) = 2
                /\ emitted.approach[k].ns[1].name = "DW"
                /\ emitted.approach[k].ns[2].name = "CW"

\* an aircraft at the final fix, 2.6 NM behind a landing aircraft, was sent
\* around the pattern and not cleared to land
C30_ResequencedBehindLanding ==
  /\ tick_counter > 0
  /\ \E i \in 1..Len(aircraft) :
       /\ AtFinalFix(i) /\ LandingTrafficNear(i)
       /\ ApproachOrders(aircraft[i].id, "Land") = {}
       /\ ApproachOrders(aircraft[i].id, "AmendAndFollow") # {}

-----------------------------------------------------------------------------
(* Gate assignment                                                         *)

\* the positions of the gate Taxi events ([one Gate node, Park]) that
\* auto-ground appended in the last tick
GateOrders ==
  {k \in 1..Len(emitted.ground) :
     /\ emitted.ground[k].kind = "Taxi"
     /\ Len(emitted.ground[k].ns) = 1
     /\ emitted.ground[k].ns[1].kind = "Gate"
     /\ emitted.ground[k].ns[1].behavior = "Park"}

\* an arrival that auto-ground has to find a gate for: TaxiArr, at taxi
\* speed, no Gate node as current node or waypoint, ground control automated
NeedsGate(a) ==
  /\ a.segment = "TaxiArr" /\ a.speed <= MAX_TAXI_SPEED
  /\ IsTaxiing(a)
  /\ \A nd \in Range(a.waypoints) \cup {a.cur} : nd.kind # "Gate"
  /\ a.airspace # "none" /\ airport_status(world, a.airspace).automate_ground

\* the position of the airport in the world
AirportAt(id) == CHOOSE k \in 1..Len(world.airports) : world.airports[k].id = id

\* the gates of the airport of the aircraft that nobody holds, in gate order
FreeGates(a) ==
  {g \in 1..Len(world.airports[AirportAt(a.airspace)].gates) :
     ~\E j \in 1..Len(aircraft) :
        /\ aircraft[j].airspace = a.airspace
        /\ HoldsGate(aircraft[j], world.airports[AirportAt(a.airspace)].gates[g])}

\* the gate order k is for the aircraft at position i: the first free gate of
\* its airport, held by no other aircraft
GateOrderFor(k, i) ==
  /\ emitted.ground[k].id = aircraft[i].id
  /\ NeedsGate(aircraft[i])
  /\ FreeGates(aircraft[i]) # {}
  /\ \E g \in FreeGates(aircraft[i]) :
       /\ \A h \in FreeGates(aircraft[i]) : g <= h
       /\ emitted.ground[k].ns[1].name =
            world.airports[AirportAt(aircraft[i].airspace)].gates[g]

\* no gate that was ordered for one aircraft in a tick, and that this aircraft
\* has taken into its plan, is ordered for another aircraft of the airspace in
\* the next tick
NotTwiceInARow ==
  \A i, j \in 1..Len(aircraft) :
    \A k \in GateOrders : \A m \in GateOrders' :
      (/\ emitted.ground[k].id = aircraft[i].id
       /\ HoldsGate(aircraft'[i], emitted.ground[k].ns[1].name)
       /\ emitted'.ground[m].id = aircraft'[j].id
       /\ aircraft[i].airspace = aircraft'[j].airspace
       /\ emitted.ground[k].ns[1].name = emitted'.ground[m].ns[1].name)
      => i = j

\* C31: auto-ground issues at most one gate Taxi per tick, to the first
\* aircraft in iteration order that has segment TaxiArr, speed <=
\* MAX_TAXI_SPEED and no Gate node as current node or waypoint, choosing the
\* first available gate in gate order; it never issues a gate that another
\* aircraft is parked at or has in its taxi plan, and never the same gate to
\* two different aircraft.
C31_GateToFirstArrival ==
  /\ [](tick_counter > 0 =>
          /\ Cardinality(GateOrders) <= 1
          /\ \A k \in GateOrders : \E i \in 1..Len(aircraft) :
               /\ GateOrderFor(k, i)
               /\ \A h \in 1..i - 1 : ~NeedsGate(aircraft[h]))
  /\ [][tick_counter' # tick_counter => NotTwiceInARow]_vars

\* C31 as the pass behaves: at most one gate Taxi per tick, to the first
\* aircraft in iteration order that needs a gate and whose airport has an
\* available one (an arrival whose airport is full is passed over), the
\* first available gate in gate order, held by no other aircraft of the
\* airspace; a gate that an aircraft took into its plan does not go to
\* another aircraft in the next tick.
C31_GateToFirstServable ==
  /\ [](tick_counter > 0 =>
          /\ Cardinality(GateOrders) <= 1
          /\ \A k \in GateOrders : \E i \in 1..Len(aircraft) :
               /\ GateOrderFor(k, i)
               /\ \A h \in 1..i - 1 :
                    ~(NeedsGate(aircraft[h]) /\ FreeGates(aircraft[h]) # {}))
  /\ [][tick_counter' # tick_counter => NotTwiceInARow]_vars

\* an arrival at KB was sent to a gate while an arrival before it in the
\* game waits at KA, where every gate is held
C31_PassedOverAtFullAirport ==
  /\ tick_counter > 0
  /\ \E k \in GateOrders : \E h, i \in 1..Len(aircraft) :
       /\ h < i /\ GateOrderFor(k, i)
       /\ NeedsGate(aircraft[h]) /\ FreeGates(aircraft[h]) = {}

-----------------------------------------------------------------------------
(* ResumeOwnNavigation                                                     *)

\* the handled ResumeOwnNavigation events of the last tick whose aircraft was
\* Flying with both airports of its plan in the world
Resumed ==
  {k \in EventEntries :
     /\ log[k].kind = "ResumeOwnNavigation" /\ log[k].was = "Flying"
     /\ HasAirport(world, log[k].pre.dep) /\ HasAirport(world, log[k].pre.arr)}

\* the actions of the SID of the plan of a: planned speed, cruise altitude of
\* the direction of the flight, centre frequency of the departure airport
SidActions(a) ==
  <<EvN(a.id, "SpeedAtOrAbove", a.fp_speed),
    EvN(a.id, "AltitudeAtOrAbove",
        IF WorldAirport(world, a.arr).cx >= WorldAirport(world, a.dep).cx
        THEN EAST_CRUISE_ALTITUDE ELSE WEST_CRUISE_ALTITUDE),
    EvN(a.id, "Frequency", NamedFrequencyOf(WorldAirport(world, a.dep), "center"))>>

\* C32: ResumeOwnNavigation{diversion} on a Flying aircraft whose departing
\* and arriving airports both exist replaces the waypoints by a list whose
\* last element is STAR and resets the index to 0; with diversion false the
\* first element is SID and no event is emitted; with diversion true the list
\* has no SID and the SID's actions SpeedAtOrAbove(planned speed),
\* AltitudeAtOrAbove(cruise altitude), Frequency(departure center) are
\* emitted for the aircraft in that order.
C32_ResumeBuildsPlan ==
  \A k \in Resumed :
    LET wps == log[k].post.fp_wps
    IN /\ wps # <<>> /\ wps[Len(wps)].name = "STAR"
       /\ \A n \in 1..Len(wps) - 1 : wps[n].name # "STAR"
       /\ log[k].post.fp_index = 0
       /\ ~log[k].ev.b =>
            /\ wps[1].name = "SID"
            /\ \A n \in 2..Len(wps) : wps[n].name # "SID"
            /\ log[k].pushed = <<>>
       /\ log[k].ev.b =>
            /\ \A n \in 1..Len(wps) : wps[n].name # "SID"
            /\ log[k].pushed = SidActions(log[k].pre)

\* a diverted aircraft got the plan W1, STAR without SID, and the actions of
\* the SID were emitted
C32_DivertedWithoutSid ==
  \E k \in Resumed :
    /\ log[k].ev.b
    /\ Len(log[k].post.fp_wps) = 2
    /\ log[k].post.fp_wps[1].name = "W1"
    /\ Len(log[k].pushed) = 3

-----------------------------------------------------------------------------
(* Diversion                                                               *)

\* the handled Segment(Arrival, Approach) events of the last tick whose
\* aircraft was inside an airspace
Transitions ==
  {k \in EventEntries :
     /\ log[k].kind = "Segment"
     /\ log[k].ev.s = "Arrival" /\ log[k].ev.s2 = "Approach"
     /\ find_airport(log[k].pre, world) # NoAirport}

\* those at the arriving airport of the aircraft, when the airport sends its
\* arrivals away and the world has another airport
Diversions ==
  {k \in Transitions :
     /\ log[k].pre.airspace = log[k].pre.arr
     /\ airport_status(world, log[k].pre.airspace).divert_arrivals
     /\ Len(world.airports) > 1}

\* the transition flips the plan towards another airport and asks for a new
\* route; at an airport the aircraft is not arriving at, it only sets the
\* segment
TransitionHandled ==
  /\ \A k \in Diversions :
       /\ log[k].post.dep = log[k].pre.arr
       /\ log[k].post.arr # log[k].pre.airspace
       /\ log[k].post.arr # log[k].post.dep
       /\ HasAirport(world, log[k].post.arr)
       /\ log[k].pushed = <<EvB(log[k].id, "ResumeOwnNavigation", TRUE)>>
  /\ \A k \in Transitions :
       log[k].pre.airspace # log[k].pre.arr =>
         /\ log[k].post = [log[k].pre EXCEPT !.segment = "Approach"]
         /\ log[k].pushed = <<>>

\* the ResumeOwnNavigation{diversion: true} of the aircraft id handled in the
\* tick that ends in the next state
Replanning(id) ==
  {k \in EventEntries' :
     /\ log'[k].id = id /\ log'[k].kind = "ResumeOwnNavigation" /\ log'[k].ev.b}

\* the event left the aircraft with a plan without SID and emitted the
\* actions of the SID of the new plan
Replanned(k) ==
  /\ \A n \in 1..Len(log'[k].post.fp_wps) : log'[k].post.fp_wps[n].name # "SID"
  /\ log'[k].post.fp_wps # <<>>
  /\ log'[k].post.fp_wps[Len(log'[k].post.fp_wps)].name = "STAR"
  /\ log'[k].pushed = SidActions(log'[k].pre)

\* C33: an aircraft that handles Segment(Arrival, Approach) inside the
\* airspace of its arriving airport, the airport having divert_arrivals and
\* the world another airport, gets its plan flipped (new departing = old
\* arriving) with a new arriving airport other than the diverting one, and
\* ResumeOwnNavigation{diversion: true} is emitted, so that after the
\* following tick its waypoint list has no SID and the SID actions of the new
\* plan have been emitted; at an airport that is not its arriving airport
\* the handler changes nothing beyond the segment.
C33_DiversionReplans ==
  /\ []TransitionHandled
  /\ [][tick_counter' # tick_counter =>
          \A d \in Diversions :
            /\ Replanning(log[d].id) # {}
            /\ \A k \in Replanning(log[d].id) : Replanned(k)]_vars

\* C33 for an aircraft that is still Flying when its ResumeOwnNavigation is
\* handled in the following tick; one that a Land in the tick of the
\* diversion has put into Landing keeps the flipped plan and its old
\* waypoints, and nothing is emitted.
C33_DiversionReplansWhenFlying ==
  /\ []TransitionHandled
  /\ [][tick_counter' # tick_counter =>
          \A d \in Diversions :
            /\ Replanning(log[d].id) # {}
            /\ \A k \in Replanning(log[d].id) :
                 IF log'[k].was = "Flying" THEN Replanned(k)
                 ELSE /\ log'[k].post = log'[k].pre
                      /\ log'[k].pushed = <<>>]_vars

\* an arrival of KA was sent on to KC: the plan runs from KA to KC and the
\* new route has been asked for
C33_ArrivalSentAway ==
  \E k \in Diversions :
    /\ log[k].pre.dep = "KB" /\ log[k].pre.arr = "KA"
    /\ log[k].post.dep = "KA" /\ log[k].post.arr = "KC"
    /\ log[k].pushed = <<EvB(log[k].id, "ResumeOwnNavigation", TRUE)>>

-----------------------------------------------------------------------------
(* Traffic advisories                                                      *)

\* a pair that is assigned a traffic advisory: advised, and not inside the
\* threshold of a resolution
TaPair(a, o) == AdvisedPair(a, o) /\ ~RaPair(a, o)

\* (p, q) is the last pair in combinations order that holds the aircraft at
\* position i and is assigned an advisory
LastAdvisedOf(ac, p, q, i) ==
  /\ p < q /\ i \in {p, q} /\ AdvisedPair(ac[p], ac[q])
  /\ ~\E m, n \in 1..Len(ac) :
        /\ m < n /\ i \in {m, n}
        /\ m > p \/ (m = p /\ n > q)
        /\ AdvisedPair(ac[m], ac[n])

C35_AdvisoriesOnlyAirborne ==
  [][(tick_counter' # tick_counter /\ config = "Full") =>
       \A i \in 1..Len(aircraft) :
         /\ aircraft'[i].tcas # "Idle" =>
              /\ IsFlying(aircraft[i]) /\ aircraft[i].altitude > 2000
              /\ \E j \in 1..Len(aircraft) :
                   /\ j # i
                   /\ Airborne(aircraft[i], aircraft[j])
                   /\ Facing(aircraft[i], aircraft[j])
         /\ (~IsFlying(aircraft[i]) \/ aircraft[i].altitude <= 2000) =>
              aircraft'[i].tcas = "Idle"]_vars

\* a pass took the advisories from an aircraft below 2000 ft, from the one
\* that faced it and from a landing aircraft
C35_AdvisoriesWithdrawn ==
  /\ tick_counter = 1
  /\ Len(aircraft) = 3
  /\ BeforeLoop(1).altitude = 1800 /\ aircraft[1].tcas = "Idle"
  /\ aircraft[2].tcas = "Idle"
  /\ ~IsFlying(BeforeLoop(3)) /\ aircraft[3].tcas = "Idle"
  /\ Callouts(emitted.tcas, 2) = 1

-----------------------------------------------------------------------------
(* Taxi                                                                    *)

\* the handled Taxi events of the last tick whose aircraft was Parked or
\* Taxiing inside an airspace, the path-finder having a path for every leg
TaxiFound ==
  {k \in EventEntries :
     /\ log[k].kind = "Taxi"
     /\ log[k].was \in {"Parked", "Taxiing"}
     /\ find_airport(log[k].pre, world) # NoAirport
     /\ ~\E i \in 1..Len(log[k].ev.ns) : NoPathEntry(k, i)}

\* the paths of the legs asked for, one after the other: each leg starts
\* where the leg before it ended
LegPaths(k) ==
  LET a == log[k].pre
      dests == log[k].ev.ns
      first == IF Len(dests) > 0 /\ name_and_kind_eq(dests[1], a.cur) THEN 2 ELSE 1
  IN Flatten([i \in 1..(Len(dests) - first + 1) |->
                path_to(find_airport(a, world),
                        IF i = 1 THEN a.cur ELSE dests[first + i - 2],
                        dests[first + i - 1])], 1)

\* the waypoints the claim describes: the paths, the Park node of the gate
\* behind them when they end at a gate, all of it in reverse
TaxiPlan(k) ==
  LET paths == LegPaths(k)
      last == paths[Len(paths)]
  IN Reverse(IF paths # <<>> /\ last.kind = "Gate"
             THEN Append(paths, Node(last.name, "Gate", "Park", 0))
             ELSE paths)

\* C36: Taxi(destinations) with every leg found sets the waypoints to the
\* reverse of the concatenated paths of the legs (the Park node of the gate
\* appended before reversing when the last path node is a Gate) and keeps
\* the current node; a Parked aircraft becomes Taxiing with the default
\* sub-state, a Taxiing aircraft keeps its sub-state; exactly one
\* TaxiContinue is emitted.  A first destination equal by name and kind to
\* the current node is skipped.  A Taxi whose resulting waypoint list is
\* empty changes nothing and emits nothing.
C36_TaxiPlansRoute ==
  \A k \in TaxiFound :
    IF TaxiPlan(k) = <<>>
    THEN log[k].post = log[k].pre /\ log[k].pushed = <<>>
    ELSE /\ IsTaxiing(log[k].post)
         /\ log[k].post.waypoints = TaxiPlan(k)
         /\ log[k].post.cur = log[k].pre.cur
         /\ log[k].post.sub = IF log[k].was = "Parked" THEN "Armed"
                               ELSE log[k].pre.sub
         /\ log[k].pushed = <<Ev(log[k].id, "TaxiContinue")>>

\* a parked aircraft was sent from its gate over A to the runway: the gate
\* it stands at is skipped and the plan is runway, A
C36_ParkedStartsTaxi ==
  \E k \in TaxiFound :
    /\ log[k].was = "Parked"
    /\ Len(log[k].ev.ns) = 3
    /\ Len(log[k].post.waypoints) = 2
    /\ log[k].post.waypoints[1].kind = "Runway"
    /\ log[k].post.waypoints[2].name = "A"
    /\ log[k].post.sub = "Armed"

-----------------------------------------------------------------------------
(* Movement states                                                         *)

\* the changes of the movement state an event may make
StateStep(k) ==
  \/ log[k].was = "Parked" /\ log[k].post.kind = "Taxiing" /\ log[k].kind = "Taxi"
  \/ /\ log[k].was = "Taxiing" /\ log[k].post.kind = "Flying"
     /\ log[k].kind = "Takeoff"
     /\ log[k].pre.cur.kind = "Runway" /\ log[k].pre.cur.name = log[k].ev.s
  \/ /\ log[k].was \in {"Flying", "Landing"} /\ log[k].post.kind = "Landing"
     /\ log[k].kind = "Land"
  \/ log[k].was = "Landing" /\ log[k].post.kind = "Flying" /\ log[k].kind = "GoAround"
  \/ log[k].was = "Landing" /\ log[k].post.kind = "Taxiing" /\ log[k].kind = "Touchdown"

\* C37: event handling changes the movement state only along Parked ->
\* Taxiing (Taxi), Taxiing -> Flying (Takeoff at the current runway node),
\* Flying -> Landing and Landing -> Landing (Land), Landing -> Flying
\* (GoAround) and Landing -> Taxiing (Touchdown); no event takes Parked to
\* Flying or Landing, Flying to Taxiing or Parked, or Landing to Parked.
C37_StateMachine ==
  \A k \in EventEntries :
    /\ log[k].pre.kind = log[k].was
    /\ log[k].post.kind # log[k].was => StateStep(k)
    /\ (log[k].post.kind = "Landing" /\ log[k].post.runway # log[k].pre.runway)
         => StateStep(k)
    /\ ~(log[k].was = "Parked" /\ log[k].post.kind \in {"Flying", "Landing"})
    /\ ~(log[k].was = "Flying" /\ log[k].post.kind \in {"Taxiing", "Parked"})
    /\ ~(log[k].was = "Landing" /\ log[k].post.kind = "Parked")

\* one tick took an aircraft from Landing to Taxiing by its Touchdown, the
\* aircraft being parked or flying at no point of it
C37_TouchdownToTaxi ==
  \E k \in EventEntries :
    /\ log[k].was = "Landing" /\ log[k].kind = "Touchdown"
    /\ log[k].post.kind = "Taxiing"
    /\ log[k].post.cur.kind = "Runway"

-----------------------------------------------------------------------------
(* Event cascades                                                          *)

\* C38: the cascades of handler-generated events are finite: after an
\* inbound event of any kind applied to an existing aircraft, with nothing
\* further injected and the TCAS, update and automation passes emitting
\* nothing, the events its handling and that of its descendants produce die
\* out, and the buffer is empty after a bounded number of ticks: three, for
\* the longest cascade (Segment(Arrival, Approach), then
\* ResumeOwnNavigation{diversion: true}, then the actions of the SID).
C38_CascadesDieOut ==
  /\ [](tick_counter >= 3 => events = <<>>)
  /\ <>[](events = <<>>)

\* the Delete events of a buffer
Deletes(evs) == {k \in 1..Len(evs) : evs[k].kind = "Delete"}

\* C38 without Delete: every cascade but that of a Delete dies out within
\* three ticks; a Delete applied to an aircraft is pushed again by its own
\* handler, so the buffer holds it after every tick for as long as the
\* aircraft is in the game.
C38_CascadesDieOutButDelete ==
  /\ [](tick_counter >= 3 => Deletes(events) = 1..Len(events))
  /\ <>[](Deletes(events) = 1..Len(events))
  /\ [](tick_counter > 0 =>
          \A k \in EventEntries :
            log[k].kind = "Delete" => Ev(log[k].id, "Delete") \in Range(events))
  /\ [][(tick_counter' # tick_counter /\ tick_counter > 0) =>
          \A k \in Deletes(events) :
            events[k].id \in Ids(aircraft) => events[k] \in Range(events')]_vars

\* the third tick handled the actions of the SID, the last generation of the
\* cascade of a diversion, and left the buffer empty
C38_DiversionCascadeEnded ==
  /\ tick_counter = 3
  /\ events = <<>>
  /\ \E k \in EventEntries : log[k].kind = "AltitudeAtOrAbove"

-----------------------------------------------------------------------------
(* Clearances of one tick                                                  *)

\* C39: auto-approach never emits Land in the same tick for two different
\* aircraft of the same airspace that are within 3.5 NM of each other: two
\* Approach aircraft that reach the final fix (within 1.5 NM) in the same
\* tick, no aircraft being in segment Landing yet, are not both cleared.
C39_OneClearancePerTick ==
  tick_counter > 0 =>
    \A i, j \in 1..Len(aircraft) :
      (/\ i # j
       /\ Looped[i].airspace = Looped[j].airspace
       /\ 2 * Abs(Looped[i].x - Looped[j].x) < 7 * NAUTICALMILES_TO_FEET
       /\ ApproachOrders(aircraft[i].id, "Land") # {})
      => ApproachOrders(aircraft[j].id, "Land") = {}

-----------------------------------------------------------------------------
(* Departures behind an arrival                                            *)

C40_StarvedTickRepeats ==
  [][(/\ tick_counter' # tick_counter
      /\ tick_counter > 0
      /\ events = returned
      /\ \A n \in world.airports[1].taxi_nodes : n.kind # "Gate")
     => /\ aircraft' = aircraft
        /\ events' = events
        /\ \E k \in 1..Len(events') :
             events'[k].kind = "Taxi" /\ events'[k].id = 1
        /\ \A i \in 1..Len(aircraft) : Waiting(aircraft[i]) =>
             ~TakeoffIssued(emitted'.ground, aircraft[i].id)]_vars

\* the departure still waits on the runway when the last tick has run, and
\* was not issued Takeoff in it
C40_DepartureStarved ==
  /\ tick_counter = MaxTicks
  /\ \E i \in 1..Len(aircraft) :
       /\ Waiting(aircraft[i])
       /\ ~TakeoffIssued(emitted.ground, aircraft[i].id)
       /\ \E j \in 1..(i - 1) : GateAssigned(aircraft[j])

====
